---- MODULE Spec2Model ----
(***************************************************************************)
(* Nested type concretization of the requirement machine                   *)
(* (lib/AST/RequirementMachine/ConcreteTypeWitness.cpp).                   *)
(*                                                                         *)
(* The rewrite system's rule store, the relation registry, the persistent  *)
(* cache of resolved (concrete rule, conformance rule) pairs and the       *)
(* property map of the current completion round are the state.  One driver *)
(* pass, concretizeNestedTypesFromConcreteParents, is followed one         *)
(* iteration of the per-parent loop at a time.                             *)
(*                                                                         *)
(* Executor hops of SILGen (lib/SILGen/SILGenConcurrency.cpp).             *)
(*                                                                         *)
(* A second specification, SILGenSpec, follows the emission of one         *)
(* function: the prolog's emitExpectedExecutor, then hops to target actors *)
(* and the breadcrumbs that hop back.  Its state is the SILGenFunction     *)
(* (the function being emitted, its expected executor, the instructions    *)
(* built so far) and the breadcrumbs handed out.                           *)
(***************************************************************************)
EXTENDS Integers, Sequences, FiniteSets, TLC

VARIABLES
    Rules,                 \* System.getRules(): the rule store, ids are indices
    Relations,             \* System.recordRelation's registry, ids are indices
    KnownProtocols,        \* System.isKnownProtocol
    ConcreteConformances,  \* PropertyMap::ConcreteConformances, pair -> conformance
    Entries,               \* PropertyMap::Entries of the current round
    Log,                   \* calls made so far (observation only)
    pc,                    \* position of the driver pass
    round,                 \* completion rounds started so far
    rerun,                 \* the running pass repeats the previous one on the same bags
    start,                 \* rule store and cache when the running pass began
    last,                  \* the branch the last iteration took, and where
    SGF,                   \* the SILGenFunction: F, FunctionDC, ExpectedExecutor, B
    Breadcrumbs,           \* the ExecutorBreadcrumbs returned so far, with the
                           \* isolation each was asked for and whether it was emitted
    phase                  \* where the emission of the function is

vars == <<Rules, Relations, KnownProtocols, ConcreteConformances, Entries,
          Log, pc, round, rerun, start, last, SGF, Breadcrumbs, phase>>

\* The state of the function emission.
silgen == <<SGF, Breadcrumbs, phase>>

(***************************************************************************)
(* Bounds of the model.                                                    *)
(***************************************************************************)
MaxRules == 3
MaxRounds == 2

(***************************************************************************)
(* Types (CanType): a type parameter tau_0_n followed by member            *)
(* projections, or a nominal type applied to arguments.                    *)
(***************************************************************************)
TParam(n, path) == [tag |-> "param", name |-> "", n |-> n, args |-> path]

TCon(name, args) == [tag |-> "con", name |-> name, n |-> 0, args |-> args]

NoType == TCon("", <<>>)

isTypeParameter(t) == t.tag = "param"

RECURSIVE hasTypeParameter(_)
hasTypeParameter(t) ==
    \/ t.tag = "param"
    \/ \E i \in 1..Len(t.args) : hasTypeParameter(t.args[i])

\* ErrorType::get(concreteType): a type with no type parameter in it.
ErrorType(concreteType) == TCon("<<error>>", <<>>)

(***************************************************************************)
(* Symbols and terms.                                                      *)
(***************************************************************************)
forGenericParam(x) ==
    [kind |-> "generic", name |-> x, proto |-> "", type |-> NoType, subs |-> <<>>]

forProtocol(p) ==
    [kind |-> "protocol", name |-> "", proto |-> p, type |-> NoType, subs |-> <<>>]

forAssociatedType(p, a) ==
    [kind |-> "assoc", name |-> a, proto |-> p, type |-> NoType, subs |-> <<>>]

forConcreteType(type, subs) ==
    [kind |-> "concrete", name |-> "", proto |-> "", type |-> type, subs |-> subs]

forSuperclass(type, subs) ==
    [kind |-> "superclass", name |-> "", proto |-> "", type |-> type, subs |-> subs]

forConcreteConformance(type, subs, p) ==
    [kind |-> "conformance", name |-> "", proto |-> p, type |-> type, subs |-> subs]

\* Symbol::prependPrefixToConcreteSubstitutions
prependPrefixToConcreteSubstitutions(sym, prefix) ==
    [sym EXCEPT !.subs = [i \in 1..Len(sym.subs) |-> prefix \o sym.subs[i]]]

\* Term::getRootProtocol: the protocol of a term rooted in a protocol or
\* associated type symbol, "" (null) for a term rooted in a generic parameter.
getRootProtocol(term) ==
    IF term[1].kind \in {"protocol", "assoc"} THEN term[1].proto ELSE ""

Prefix(term, n) == SubSeq(term, 1, n)

Suffix(term, n) == SubSeq(term, Len(term) - n + 1, Len(term))

(***************************************************************************)
(* Rewrite paths.                                                          *)
(***************************************************************************)
forRewriteRule(startOffset, endOffset, ruleID, inverse) ==
    [Kind |-> "Rule", StartOffset |-> startOffset, EndOffset |-> endOffset,
     Arg |-> ruleID, Inverse |-> inverse]

forRelation(startOffset, relationID, inverse) ==
    [Kind |-> "Relation", StartOffset |-> startOffset, EndOffset |-> 0,
     Arg |-> relationID, Inverse |-> inverse]

forPrefixSubstitutions(length, endOffset, inverse) ==
    [Kind |-> "PrefixSubstitutions", StartOffset |-> 0, EndOffset |-> endOffset,
     Arg |-> length, Inverse |-> inverse]

\* RewritePath::invert: the steps in reverse order, each one inverted.
invert(path) ==
    [i \in 1..Len(path) |->
        [path[Len(path) + 1 - i] EXCEPT !.Inverse = ~path[Len(path) + 1 - i].Inverse]]

\* A rule added without a path (addRule's path argument left out).
NoPath == <<>>

(***************************************************************************)
(* The declarations the scenarios use.                                     *)
(*   protocol Q { associatedtype V }                                       *)
(*   protocol P { associatedtype A; associatedtype C }                     *)
(*   protocol R {}                                                         *)
(*   struct Foo<A, B : Q> : P { typealias C = B.V }   (A witnessed by Int) *)
(*   extension Foo : R where B : Q, B.V : Q {}                             *)
(*   extension Int : Q { typealias V = Int }                               *)
(*   struct G<X> : Q { typealias V = G<X> }                                *)
(*   class Cls : P { typealias C = Cls }   (the witness of A is missing)   *)
(***************************************************************************)
Protocols == {"P", "Q", "R"}

getAssociatedTypeMembers(p) ==
    CASE p = "P" -> <<"A", "C">>
      [] p = "Q" -> <<"V">>
      [] OTHER -> <<>>

IntType == TCon("Int", <<>>)

FooIntT0 == TCon("Foo", <<IntType, TParam(0, <<>>)>>)

GT0 == TCon("G", <<TParam(0, <<>>)>>)

Cls == TCon("Cls", <<>>)

Invalid == "invalid"

\* ModuleDecl::lookupConformance: the conformance of a concrete type to a
\* protocol, Invalid when the type does not conform.
lookupConformance(concreteType, p) ==
    CASE concreteType = FooIntT0 /\ p = "P" -> "Foo:P"
      [] concreteType = FooIntT0 /\ p = "R" -> "Foo:R"
      [] concreteType = IntType /\ p = "Q" -> "Int:Q"
      [] concreteType = GT0 /\ p = "Q" -> "G:Q"
      [] concreteType = Cls /\ p = "P" -> "Cls:P"
      [] OTHER -> Invalid

NoWitness == TCon("<<none>>", <<>>)

\* ProtocolConformance::getTypeWitness, NoWitness for a null type.
getTypeWitness(concrete, a) ==
    CASE concrete = "Foo:P" /\ a = "A" -> IntType
      [] concrete = "Foo:P" /\ a = "C" -> TParam(0, <<forAssociatedType("Q", "V")>>)
      [] concrete = "Int:Q" /\ a = "V" -> IntType
      [] concrete = "G:Q" /\ a = "V" -> GT0
      [] concrete = "Cls:P" /\ a = "C" -> Cls
      [] OTHER -> NoWitness

\* ProtocolConformance::getConditionalRequirements, already desugared:
\* conformance requirements "subject : proto".
getConditionalRequirements(concrete) ==
    IF concrete = "Foo:R"
    THEN <<[subject |-> TParam(0, <<>>), proto |-> "Q"],
           [subject |-> TParam(0, <<forAssociatedType("Q", "V")>>), proto |-> "Q"]>>
    ELSE <<>>

(***************************************************************************)
(* Rules.                                                                  *)
(***************************************************************************)
Rule(lhs, rhs, path, permanent) ==
    [LHS |-> lhs, RHS |-> rhs, conflicting |-> FALSE, permanent |-> permanent,
     path |-> path]

\* A property rule T.[p] => T states property p of T.
PropertyRule(key, sym) == Rule(key \o <<sym>>, key, NoPath, FALSE)

\* Rule::isPropertyRule
hasProperty(rule) ==
    /\ Len(rule.LHS) = Len(rule.RHS) + 1
    /\ Prefix(rule.LHS, Len(rule.RHS)) = rule.RHS
    /\ rule.LHS[Len(rule.LHS)].kind \in {"protocol", "concrete", "superclass", "conformance"}

isPropertyRule(rule) == rule.LHS[Len(rule.LHS)]

T == <<forGenericParam("T")>>

U == <<forGenericParam("U")>>

W == <<forGenericParam("W")>>

PA == <<forAssociatedType("P", "A")>>

PC == <<forAssociatedType("P", "C")>>

\* The rules a generic signature and the protocols' requirement signatures
\* can put in the store before or between the passes.
BaseRules == <<
    PropertyRule(T, forProtocol("Q")),
    PropertyRule(T, forProtocol("P")),
    PropertyRule(T, forConcreteType(FooIntT0, <<U>>)),
    PropertyRule(T, forSuperclass(Cls, <<>>)),
    PropertyRule(T, forProtocol("R")),
    PropertyRule(PA, forProtocol("Q")),
    PropertyRule(PA, forConcreteType(IntType, <<>>)),
    PropertyRule(T \o PA, forProtocol("R")),
    PropertyRule(U, forProtocol("Q")),
    PropertyRule(U, forConcreteType(GT0, <<W>>)),
    Rule(W, U, NoPath, FALSE),
    PropertyRule(PA, forConcreteType(FooIntT0, <<PC>>)),
    PropertyRule(PA, forProtocol("R")),
    PropertyRule(T \o PA, forConcreteType(IntType, <<>>)),
    PropertyRule(T, forConcreteType(IntType, <<>>)),
    PropertyRule(T \o PA, forProtocol("Q"))
>>

(***************************************************************************)
(* The property map of one round, rebuilt from the rule store.             *)
(***************************************************************************)
NoSymbol == forGenericParam("")

EmptyBag(key) ==
    [Key |-> key,
     ConformsTo |-> <<>>, ConformsToRules |-> <<>>,
     hasConcrete |-> FALSE, ConcreteTypeRule |-> 0, ConcreteType |-> NoSymbol,
     hasSuperclass |-> FALSE, SuperclassRule |-> 0, SuperclassType |-> NoSymbol,
     ConcreteConformances |-> <<>>, SuperclassConformances |-> <<>>]

\* PropertyBag::copyPropertiesFrom: the bag of a key starts from the bag of
\* its longest proper suffix, the substitutions prefixed by what the key adds.
copyPropertiesFrom(key, next) ==
    LET prefix == Prefix(key, Len(key) - Len(next.Key))
    IN [EmptyBag(key) EXCEPT
          !.ConformsTo = next.ConformsTo,
          !.ConformsToRules = next.ConformsToRules,
          !.hasConcrete = next.hasConcrete,
          !.ConcreteTypeRule = next.ConcreteTypeRule,
          !.ConcreteType = IF next.hasConcrete
                           THEN prependPrefixToConcreteSubstitutions(next.ConcreteType, prefix)
                           ELSE NoSymbol,
          !.hasSuperclass = next.hasSuperclass,
          !.SuperclassRule = next.SuperclassRule,
          !.SuperclassType = IF next.hasSuperclass
                             THEN prependPrefixToConcreteSubstitutions(next.SuperclassType, prefix)
                             ELSE NoSymbol]

\* PropertyMap::addProperty: the property of rule ruleID joins the bag; a
\* property the bag already has (inherited, or stated twice) is kept as it is.
addProperty(bag, ruleID, rule) ==
    LET sym == isPropertyRule(rule)
    IN CASE sym.kind = "protocol" /\ ~(\E i \in 1..Len(bag.ConformsTo) : bag.ConformsTo[i] = sym.proto) ->
              [bag EXCEPT !.ConformsTo = Append(@, sym.proto),
                          !.ConformsToRules = Append(@, ruleID)]
         [] sym.kind = "concrete" /\ ~bag.hasConcrete ->
              [bag EXCEPT !.hasConcrete = TRUE, !.ConcreteTypeRule = ruleID,
                          !.ConcreteType = sym]
         [] sym.kind = "superclass" /\ ~bag.hasSuperclass ->
              [bag EXCEPT !.hasSuperclass = TRUE, !.SuperclassRule = ruleID,
                          !.SuperclassType = sym]
         [] OTHER -> bag

\* The rules the property map records: property rules that are not permanent
\* and state a conformance, a concrete type or a superclass.
isRecorded(rule) ==
    /\ ~rule.permanent
    /\ hasProperty(rule)
    /\ isPropertyRule(rule).kind \in {"protocol", "concrete", "superclass"}

RECURSIVE addProperties(_, _, _)
addProperties(bag, rules, i) ==
    IF i > Len(rules) THEN bag
    ELSE addProperties(
           IF isRecorded(rules[i]) /\ rules[i].RHS = bag.Key
           THEN addProperty(bag, i, rules[i]) ELSE bag,
           rules, i + 1)

\* PropertyMap::lookUpProperties: the bag of the longest suffix of the term
\* that has one, 0 when no suffix has a bag.
lookUpProperties(entries, term) ==
    LET hits == {i \in 1..Len(entries) :
                    /\ Len(entries[i].Key) <= Len(term)
                    /\ Suffix(term, Len(entries[i].Key)) = entries[i].Key}
    IN IF hits = {} THEN 0
       ELSE CHOOSE i \in hits : \A j \in hits : Len(entries[j].Key) <= Len(entries[i].Key)

\* The first rule that states a property of the key.
FirstRuleOf(rules, key) ==
    CHOOSE i \in 1..Len(rules) :
        /\ isRecorded(rules[i]) /\ rules[i].RHS = key
        /\ \A j \in 1..(i - 1) : ~(isRecorded(rules[j]) /\ rules[j].RHS = key)

\* Keys are created shortest first, and in rule order among equals.
RECURSIVE buildEntries(_, _, _)
buildEntries(entries, rules, keys) ==
    IF keys = {} THEN entries
    ELSE LET key == CHOOSE k \in keys : \A o \in keys :
                        \/ Len(k) < Len(o)
                        \/ Len(k) = Len(o) /\ FirstRuleOf(rules, k) <= FirstRuleOf(rules, o)
             next == lookUpProperties(entries, key)
             bag == IF next = 0 THEN EmptyBag(key)
                    ELSE copyPropertiesFrom(key, entries[next])
         IN buildEntries(Append(entries, addProperties(bag, rules, 1)), rules,
                         keys \ {key})

\* PropertyMap::buildPropertyMap
buildPropertyMap(rules) ==
    buildEntries(<<>>, rules,
                 {rules[i].RHS : i \in {j \in 1..Len(rules) : isRecorded(rules[j])}})

(***************************************************************************)
(* The rewrite system's services.  A state s of the engine is the record   *)
(* [Rules, Relations, KnownProtocols, ConcreteConformances, Entries, Log]. *)
(***************************************************************************)
SameType == "SameType"

Superclass == "Superclass"

LogEntry(op) ==
    [op |-> op, pair |-> <<0, 0>>, key |-> <<>>, kind |-> "", name |-> "",
     member |-> "", lhs |-> <<>>, rhs |-> <<>>, path |-> NoPath, hasPath |-> FALSE,
     flagged |-> FALSE, rules |-> 0]

\* RewriteSystem::addRule(lhs, rhs, path): the call is logged with what kind
\* of rule it adds (name) and for which pair; a rule identical to one in the
\* store is not added again.
addRule(s, lhs, rhs, path, hasPath, name, pair) ==
    LET call == [LogEntry("addRule") EXCEPT
                    !.lhs = lhs, !.rhs = rhs, !.path = path, !.hasPath = hasPath,
                    !.name = name, !.pair = pair,
                    !.flagged = /\ pair[1] > 0
                                /\ \/ s.Rules[pair[1]].conflicting
                                   \/ s.Rules[pair[2]].conflicting]
        known == \E i \in 1..Len(s.Rules) :
                    s.Rules[i].LHS = lhs /\ s.Rules[i].RHS = rhs
    IN [s EXCEPT !.Log = Append(@, call),
                 !.Rules = IF known THEN @ ELSE Append(@, Rule(lhs, rhs, path, FALSE))]

\* RewriteSystem::addPermanentRule
addPermanentRule(s, lhs, rhs) ==
    LET known == \E i \in 1..Len(s.Rules) :
                    s.Rules[i].LHS = lhs /\ s.Rules[i].RHS = rhs
    IN [s EXCEPT !.Log = Append(@, [LogEntry("addPermanentRule") EXCEPT
                                       !.lhs = lhs, !.rhs = rhs]),
                 !.Rules = IF known THEN @ ELSE Append(@, Rule(lhs, rhs, NoPath, TRUE))]

\* RewriteSystem::recordRelation: the id of the relation (lhs, rhs), which is
\* registered on its first use.
relationID(relations, lhs, rhs) ==
    IF \E i \in 1..Len(relations) : relations[i] = <<lhs, rhs>>
    THEN CHOOSE i \in 1..Len(relations) : relations[i] = <<lhs, rhs>>
    ELSE Len(relations) + 1

recordRelation(relations, lhs, rhs) ==
    IF \E i \in 1..Len(relations) : relations[i] = <<lhs, rhs>>
    THEN relations
    ELSE Append(relations, <<lhs, rhs>>)

\* RewriteContext::getRelativeTermForType: tau_0_n.X.Y...Z is S[n].X.Y...Z.
getRelativeTermForType(typeWitness, substitutions) ==
    substitutions[typeWitness.n + 1] \o typeWitness.args

\* The arguments of a nominal type that are type parameters.
ParamArgs(type) == {i \in 1..Len(type.args) : isTypeParameter(type.args[i])}

\* RewriteContext::getRelativeSubstitutionSchemaFromType: the type with its
\* type parameters renumbered tau_0_0, tau_0_1, ... in order of appearance,
\* and the term each of them stands for.
getRelativeSubstitutionSchemaFromType(type, substitutions) ==
    LET Index(i) == Cardinality({j \in ParamArgs(type) : j < i})
        Nth(k) == CHOOSE i \in ParamArgs(type) : Index(i) = k - 1
    IN [schema |-> [type EXCEPT !.args =
                        [i \in 1..Len(type.args) |->
                            IF i \in ParamArgs(type)
                            THEN TParam(Index(i), <<>>) ELSE type.args[i]]],
        result |-> [k \in 1..Cardinality(ParamArgs(type)) |->
                        getRelativeTermForType(type.args[Nth(k)], substitutions)]]

\* A rule that rewrites a whole term: 0 when the store has none.
RewriteRuleFor(rules, term) ==
    LET hits == {i \in 1..Len(rules) : ~hasProperty(rules[i]) /\ rules[i].LHS = term}
    IN IF hits = {} THEN 0 ELSE CHOOSE i \in hits : \A j \in hits : i <= j

\* RewriteSystem::simplifySubstitutions: the substitution terms of a symbol
\* reduced by the rules of the store.  differs says whether any term changed
\* (a type difference LHS -> RHS was recorded); path rewrites the terms.
simplifySubstitutions(rules, symbol) ==
    LET changed == {i \in 1..Len(symbol.subs) : RewriteRuleFor(rules, symbol.subs[i]) > 0}
        first == CHOOSE i \in changed : \A j \in changed : i <= j
    IN [differs |-> changed # {},
        LHS |-> symbol,
        RHS |-> [symbol EXCEPT !.subs =
                    [i \in 1..Len(symbol.subs) |->
                        IF i \in changed
                        THEN rules[RewriteRuleFor(rules, symbol.subs[i])].RHS
                        ELSE symbol.subs[i]]],
        path |-> IF changed = {} THEN <<>>
                 ELSE <<forRewriteRule(0, 0, RewriteRuleFor(rules, symbol.subs[first]), FALSE)>>]

(***************************************************************************)
(* PropertyMap::computeConstraintTermForTypeWitness.  The result is the    *)
(* constraint term, the path it appended, the relation registry after its  *)
(* recordings, and the branch it took.                                     *)
(***************************************************************************)
\* The lengths of the prefixes of the key whose bag has the type witness as
\* its concrete type.
MatchingPrefixes(s, key, typeWitness) ==
    {n \in 1..Len(key) :
        LET props == lookUpProperties(s.Entries, Prefix(key, n))
        IN /\ props # 0
           /\ s.Entries[props].hasConcrete
           /\ s.Entries[props].ConcreteType.type = typeWitness}

\* A scan that runs from the shortest prefix up.
scanPrefixesShortestFirst(s, key, typeWitness) ==
    LET matches == MatchingPrefixes(s, key, typeWitness)
    IN IF matches = {} THEN 0
       ELSE CHOOSE m \in matches : \A o \in matches : m <= o

\* The scan of the prefixes of the key: it runs from the whole key down to
\* the prefix of length one and stops at the first match; 0 when none matches.
scanPrefixes(s, key, typeWitness) ==
    LET matches == MatchingPrefixes(s, key, typeWitness)
    IN IF matches = {} THEN 0
       ELSE CHOOSE m \in matches : \A o \in matches : o <= m

\* An abstract witness resolved to the substitution term without the member
\* types that follow the type parameter.
abstractTypeWitnessUnprojected(s, typeWitness, subjectType, substitutions) ==
    LET result == substitutions[typeWitness.n + 1]
    IN [term |-> result,
        path |-> <<forRelation(0, relationID(s.Relations, result, subjectType), FALSE)>>,
        Relations |-> recordRelation(s.Relations, result, subjectType),
        branch |-> "abstract"]

\* The type witness is a type parameter tau_0_n.X.Y...Z.
abstractTypeWitness(s, typeWitness, subjectType, substitutions) ==
    LET result == getRelativeTermForType(typeWitness, substitutions)
    IN [term |-> result,
        path |-> <<forRelation(0, relationID(s.Relations, result, subjectType), FALSE)>>,
        Relations |-> recordRelation(s.Relations, result, subjectType),
        branch |-> "abstract"]

\* A tie-off that returns the key of the bag without the concrete type symbol.
prefixTypeWitnessBare(s, key, n, typeWitnessSymbol, subjectType) ==
    LET props == s.Entries[lookUpProperties(s.Entries, Prefix(key, n))]
        result == props.Key
    IN [term |-> result,
        path |-> <<forRelation(0, relationID(s.Relations, result, subjectType), FALSE)>>,
        Relations |-> recordRelation(s.Relations, result, subjectType),
        branch |-> "prefix"]

\* The prefix of length n has a bag with the type witness as its concrete type.
prefixTypeWitness(s, key, n, typeWitnessSymbol, subjectType) ==
    LET props == s.Entries[lookUpProperties(s.Entries, Prefix(key, n))]
        result == props.Key \o <<typeWitnessSymbol>>
    IN [term |-> result,
        path |-> <<forRelation(0, relationID(s.Relations, result, subjectType), FALSE)>>,
        Relations |-> recordRelation(s.Relations, result, subjectType),
        branch |-> "prefix"]

\* A test that forgets the requirement kind.
isSameAsParentAnyKind(requirementKind, typeWitnessSymbol, concreteType, substitutions) ==
    /\ typeWitnessSymbol.type = concreteType
    /\ typeWitnessSymbol.subs = substitutions

\* The simplified type witness is the parent type itself.
isSameAsParent(requirementKind, typeWitnessSymbol, concreteType, substitutions) ==
    /\ requirementKind = SameType
    /\ typeWitnessSymbol.type = concreteType
    /\ typeWitnessSymbol.subs = substitutions

\* A self-referential rule whose path starts with a forward step.
sameTypeWitnessForward(key, relations, concreteRelationID, substPath, concreteConformanceSymbol, associatedTypeSymbol) ==
    LET sameLHS == <<concreteConformanceSymbol, associatedTypeSymbol,
                     forConcreteType(concreteConformanceSymbol.type,
                                     concreteConformanceSymbol.subs)>>
        sameRHS == <<concreteConformanceSymbol>>
    IN [term |-> key \o <<concreteConformanceSymbol>>,
        path |-> <<forRelation(Len(key), relationID(relations, sameLHS, sameRHS), FALSE)>>
                 \o substPath
                 \o <<forRelation(Len(key), concreteRelationID, FALSE)>>,
        Relations |-> recordRelation(relations, sameLHS, sameRHS),
        branch |-> "same"]

\* The rule T.[concrete: C : P] => T.[concrete: C : P].[P:X].
sameTypeWitness(key, relations, concreteRelationID, substPath, concreteConformanceSymbol, associatedTypeSymbol) ==
    LET \* recordSameTypeWitnessRelation
        sameLHS == <<concreteConformanceSymbol, associatedTypeSymbol,
                     forConcreteType(concreteConformanceSymbol.type,
                                     concreteConformanceSymbol.subs)>>
        sameRHS == <<concreteConformanceSymbol>>
    IN [term |-> key \o <<concreteConformanceSymbol>>,
        path |-> <<forRelation(Len(key), relationID(relations, sameLHS, sameRHS), TRUE)>>
                 \o substPath
                 \o <<forRelation(Len(key), concreteRelationID, FALSE)>>,
        Relations |-> recordRelation(relations, sameLHS, sameRHS),
        branch |-> "same"]

\* A concrete type rule whose path leaves the simplification out.
concreteTypeWitnessUnjustified(key, relations, concreteRelationID, substPath, subjectType, typeWitnessSymbol) ==
    [term |-> subjectType \o <<typeWitnessSymbol>>,
     path |-> <<forRelation(Len(key), concreteRelationID, FALSE)>>,
     Relations |-> relations,
     branch |-> "concrete"]

\* The rule T.[concrete: C : P].[P:X].[concrete: C.X'] => T.[concrete: C : P].[P:X].
concreteTypeWitness(key, relations, concreteRelationID, substPath, subjectType, typeWitnessSymbol) ==
    [term |-> subjectType \o <<typeWitnessSymbol>>,
     path |-> substPath \o <<forRelation(Len(key), concreteRelationID, FALSE)>>,
     Relations |-> relations,
     branch |-> "concrete"]

\* A synthesizer that tests for the parent type before it scans the prefixes.
computeConstraintTermSameTypeFirst(s, key, requirementKind, concreteType, typeWitness, subjectType, substitutions) ==
    IF isTypeParameter(typeWitness)
    THEN abstractTypeWitness(s, typeWitness, subjectType, substitutions)
    ELSE
    LET rel == getRelativeSubstitutionSchemaFromType(typeWitness, substitutions)
        typeWitnessSymbol == forConcreteType(rel.schema, rel.result)
        n == IF hasTypeParameter(typeWitness) THEN 0
             ELSE scanPrefixes(s, key, typeWitness)
        concreteConformanceSymbol == subjectType[Len(subjectType) - 1]
        associatedTypeSymbol == subjectType[Len(subjectType)]
        witnessLHS == <<concreteConformanceSymbol, associatedTypeSymbol, typeWitnessSymbol>>
        witnessRHS == <<concreteConformanceSymbol, associatedTypeSymbol>>
        concreteRelationID == relationID(s.Relations, witnessLHS, witnessRHS)
        relations1 == recordRelation(s.Relations, witnessLHS, witnessRHS)
        difference == simplifySubstitutions(s.Rules, typeWitnessSymbol)
        simplified == IF difference.differs THEN difference.RHS ELSE typeWitnessSymbol
        substPath == IF difference.differs THEN invert(difference.path) ELSE <<>>
    IN IF isSameAsParent(requirementKind, simplified, concreteType, substitutions)
       THEN sameTypeWitness(key, relations1, concreteRelationID, substPath,
                            concreteConformanceSymbol, associatedTypeSymbol)
       ELSE IF n > 0
       THEN prefixTypeWitness(s, key, n, typeWitnessSymbol, subjectType)
       ELSE concreteTypeWitness(key, relations1, concreteRelationID, substPath,
                                subjectType, simplified)

computeConstraintTermForTypeWitness(s, key, requirementKind, concreteType, typeWitness, subjectType, substitutions) ==
    IF isTypeParameter(typeWitness)
    THEN abstractTypeWitness(s, typeWitness, subjectType, substitutions)
    ELSE
    LET rel == getRelativeSubstitutionSchemaFromType(typeWitness, substitutions)
        typeWitnessSymbol == forConcreteType(rel.schema, rel.result)
        n == IF hasTypeParameter(typeWitness) THEN 0
             ELSE scanPrefixes(s, key, typeWitness)
    IN IF n > 0
       THEN prefixTypeWitness(s, key, n, typeWitnessSymbol, subjectType)
       ELSE
       LET concreteConformanceSymbol == subjectType[Len(subjectType) - 1]
           associatedTypeSymbol == subjectType[Len(subjectType)]
           \* recordConcreteTypeWitnessRelation, before the simplification
           witnessLHS == <<concreteConformanceSymbol, associatedTypeSymbol, typeWitnessSymbol>>
           witnessRHS == <<concreteConformanceSymbol, associatedTypeSymbol>>
           concreteRelationID == relationID(s.Relations, witnessLHS, witnessRHS)
           relations1 == recordRelation(s.Relations, witnessLHS, witnessRHS)
           difference == simplifySubstitutions(s.Rules, typeWitnessSymbol)
           simplified == IF difference.differs THEN difference.RHS ELSE typeWitnessSymbol
           substPath == IF difference.differs THEN invert(difference.path) ELSE <<>>
       IN IF isSameAsParent(requirementKind, simplified, concreteType, substitutions)
          THEN sameTypeWitness(key, relations1, concreteRelationID, substPath,
                               concreteConformanceSymbol, associatedTypeSymbol)
          ELSE concreteTypeWitness(key, relations1, concreteRelationID, substPath,
                                   subjectType, simplified)

\* A synthesizer that adds its rule with a path the computation never filled.
concretizeTypeWitnessWithoutPath(s, key, requirementKind, concreteConformanceSymbol, concrete, assocType, pair) ==
    LET concreteType == concreteConformanceSymbol.type
        substitutions == concreteConformanceSymbol.subs
        proto == concreteConformanceSymbol.proto
        t == getTypeWitness(concrete, assocType)
        typeWitness == IF t = NoWitness THEN ErrorType(concreteType) ELSE t
        subjectType == key \o <<concreteConformanceSymbol, forAssociatedType(proto, assocType)>>
        r == computeConstraintTermForTypeWitness(s, key, requirementKind, concreteType,
                                                 typeWitness, subjectType, substitutions)
        called == [s EXCEPT !.Relations = r.Relations,
                            !.Log = Append(@, [LogEntry("concretizeTypeWitnessInConformance") EXCEPT
                                                  !.pair = pair, !.key = key,
                                                  !.kind = requirementKind,
                                                  !.name = r.branch,
                                                  !.member = assocType,
                                                  !.rules = Len(s.Rules),
                                                  !.path = <<>>])]
    IN addRule(called, r.term, subjectType, <<>>, TRUE, "witness", pair)

\* A synthesizer that gives up on a member the conformance has no witness for.
concretizeTypeWitnessOrGiveUp(s, key, requirementKind, concreteConformanceSymbol, concrete, assocType, pair) ==
    LET concreteType == concreteConformanceSymbol.type
        substitutions == concreteConformanceSymbol.subs
        proto == concreteConformanceSymbol.proto
        typeWitness == getTypeWitness(concrete, assocType)
        subjectType == key \o <<concreteConformanceSymbol, forAssociatedType(proto, assocType)>>
        r == computeConstraintTermForTypeWitness(s, key, requirementKind, concreteType,
                                                 typeWitness, subjectType, substitutions)
        called == [s EXCEPT !.Relations = r.Relations,
                            !.Log = Append(@, [LogEntry("concretizeTypeWitnessInConformance") EXCEPT
                                                  !.pair = pair, !.key = key,
                                                  !.kind = requirementKind,
                                                  !.name = r.branch,
                                                  !.member = assocType,
                                                  !.rules = Len(s.Rules),
                                                  !.path = r.path])]
    IN IF typeWitness = NoWitness THEN s
       ELSE addRule(called, r.term, subjectType, r.path, TRUE, "witness", pair)

(***************************************************************************)
(* PropertyMap::concretizeTypeWitnessInConformance                         *)
(***************************************************************************)
concretizeTypeWitnessInConformance(s, key, requirementKind, concreteConformanceSymbol, concrete, assocType, pair) ==
    LET concreteType == concreteConformanceSymbol.type
        substitutions == concreteConformanceSymbol.subs
        proto == concreteConformanceSymbol.proto
        t == getTypeWitness(concrete, assocType)
        typeWitness == IF t = NoWitness THEN ErrorType(concreteType) ELSE t
        subjectType == key \o <<concreteConformanceSymbol, forAssociatedType(proto, assocType)>>
        r == computeConstraintTermForTypeWitness(s, key, requirementKind, concreteType,
                                                 typeWitness, subjectType, substitutions)
        called == [s EXCEPT !.Relations = r.Relations,
                            !.Log = Append(@, [LogEntry("concretizeTypeWitnessInConformance") EXCEPT
                                                  !.pair = pair, !.key = key,
                                                  !.kind = requirementKind,
                                                  !.name = r.branch,
                                                  !.member = assocType,
                                                  !.rules = Len(s.Rules),
                                                  !.path = r.path])]
    IN addRule(called, r.term, subjectType, r.path, TRUE, "witness", pair)

\* The substitutions prefixed whenever the concrete rule is the shorter one.
prefixWheneverShorter(prefixLength, concreteConformanceSymbol) == prefixLength > 0

\* The test that guards the prefix-substitutions step: the concrete rule's
\* term is a proper suffix of the longer one and there is something to prefix.
needsPrefixSubstitutions(prefixLength, concreteConformanceSymbol) ==
    prefixLength > 0 /\ concreteConformanceSymbol.subs # <<>>

\* A compound rule always stated on the key of the conformance rule.
recordRuleOnConformanceKey(s, concreteRuleID, conformanceRuleID, requirementKind, concreteConformanceSymbol) ==
    LET concreteRule == s.Rules[concreteRuleID]
        conformanceRule == s.Rules[conformanceRuleID]
        rhs == conformanceRule.RHS
        step1 == forRewriteRule(Len(rhs) - Len(conformanceRule.RHS), 0, conformanceRuleID, TRUE)
        step2 == forRewriteRule(Len(rhs) - Len(concreteRule.RHS), 1, concreteRuleID, TRUE)
        prefixLength == Len(rhs) - Len(concreteRule.RHS)
        prefixed == needsPrefixSubstitutions(prefixLength, concreteConformanceSymbol)
        concreteSymbol == IF prefixed
                          THEN prependPrefixToConcreteSubstitutions(
                                   isPropertyRule(concreteRule), Prefix(rhs, prefixLength))
                          ELSE isPropertyRule(concreteRule)
        protocolSymbol == isPropertyRule(conformanceRule)
        relLHS == <<concreteSymbol, protocolSymbol>>
        relRHS == <<concreteConformanceSymbol>>
        path == <<step1, step2>>
                \o (IF prefixed THEN <<forPrefixSubstitutions(prefixLength, 1, FALSE)>> ELSE <<>>)
                \o <<forRelation(Len(rhs), relationID(s.Relations, relLHS, relRHS), FALSE)>>
        lhs == rhs \o <<concreteConformanceSymbol>>
        called == [s EXCEPT !.Relations = recordRelation(@, relLHS, relRHS),
                            !.Log = Append(@, [LogEntry("recordConcreteConformanceRule") EXCEPT
                                                  !.pair = <<concreteRuleID, conformanceRuleID>>,
                                                  !.kind = requirementKind])]
    IN addRule(called, lhs, rhs, invert(path), TRUE, "compound",
               <<concreteRuleID, conformanceRuleID>>)

(***************************************************************************)
(* PropertyMap::recordConcreteConformanceRule                              *)
(***************************************************************************)
recordConcreteConformanceRule(s, concreteRuleID, conformanceRuleID, requirementKind, concreteConformanceSymbol) ==
    LET concreteRule == s.Rules[concreteRuleID]
        conformanceRule == s.Rules[conformanceRuleID]
        rhs == IF Len(concreteRule.RHS) > Len(conformanceRule.RHS)
               THEN concreteRule.RHS ELSE conformanceRule.RHS
        step1 == forRewriteRule(Len(rhs) - Len(conformanceRule.RHS), 0, conformanceRuleID, TRUE)
        step2 == forRewriteRule(Len(rhs) - Len(concreteRule.RHS), 1, concreteRuleID, TRUE)
        prefixLength == Len(rhs) - Len(concreteRule.RHS)
        prefixed == needsPrefixSubstitutions(prefixLength, concreteConformanceSymbol)
        concreteSymbol == IF prefixed
                          THEN prependPrefixToConcreteSubstitutions(
                                   isPropertyRule(concreteRule), Prefix(rhs, prefixLength))
                          ELSE isPropertyRule(concreteRule)
        protocolSymbol == isPropertyRule(conformanceRule)
        \* recordConcreteConformanceRelation
        relLHS == <<concreteSymbol, protocolSymbol>>
        relRHS == <<concreteConformanceSymbol>>
        path == <<step1, step2>>
                \o (IF prefixed THEN <<forPrefixSubstitutions(prefixLength, 1, FALSE)>> ELSE <<>>)
                \o <<forRelation(Len(rhs), relationID(s.Relations, relLHS, relRHS), FALSE)>>
        lhs == rhs \o <<concreteConformanceSymbol>>
        called == [s EXCEPT !.Relations = recordRelation(@, relLHS, relRHS),
                            !.Log = Append(@, [LogEntry("recordConcreteConformanceRule") EXCEPT
                                                  !.pair = <<concreteRuleID, conformanceRuleID>>,
                                                  !.kind = requirementKind])]
    IN addRule(called, lhs, rhs, invert(path), TRUE, "compound",
               <<concreteRuleID, conformanceRuleID>>)

(***************************************************************************)
(* PropertyMap::inferConditionalRequirements                               *)
(***************************************************************************)
forName(a) ==
    [kind |-> "name", name |-> a, proto |-> "", type |-> NoType, subs |-> <<>>]

\* RuleBuilder::addProtocol: the permanent rules of a protocol, its identity
\* conformance [P].[P] => [P] and one rule [P].A => [P:A] per associated type.
PermanentRules(proto) ==
    <<[LHS |-> <<forProtocol(proto), forProtocol(proto)>>, RHS |-> <<forProtocol(proto)>>]>>
    \o [k \in 1..Len(getAssociatedTypeMembers(proto)) |->
           [LHS |-> <<forProtocol(proto), forName(getAssociatedTypeMembers(proto)[k])>>,
            RHS |-> <<forAssociatedType(proto, getAssociatedTypeMembers(proto)[k])>>]]

\* RuleBuilder::RequirementRules: the rules of the requirement signature of
\* a protocol.  The protocols of the scenarios constrain no associated type.
RequirementRules(proto) == <<>>

\* RewriteSystem::addExplicitRule
addExplicitRule(s, lhs, rhs) ==
    LET known == \E i \in 1..Len(s.Rules) :
                    s.Rules[i].LHS = lhs /\ s.Rules[i].RHS = rhs
    IN [s EXCEPT !.Log = Append(@, [LogEntry("addExplicitRule") EXCEPT
                                       !.lhs = lhs, !.rhs = rhs]),
                 !.Rules = IF known THEN @ ELSE Append(@, Rule(lhs, rhs, NoPath, FALSE))]

RECURSIVE addPermanentRules(_, _, _)
addPermanentRules(s, rules, k) ==
    IF k > Len(rules) THEN s
    ELSE addPermanentRules(addPermanentRule(s, rules[k].LHS, rules[k].RHS), rules, k + 1)

RECURSIVE addExplicitRules(_, _, _)
addExplicitRules(s, rules, k) ==
    IF k > Len(rules) THEN s
    ELSE addExplicitRules(addExplicitRule(s, rules[k].LHS, rules[k].RHS), rules, k + 1)

\* The body of the unknown-protocol branch: the protocol becomes known and
\* its permanent rules, then its requirement rules, are added.
addProtocol(s, proto) ==
    addExplicitRules(
        addPermanentRules(
            [s EXCEPT !.KnownProtocols = @ \cup {proto},
                      !.Log = Append(@, [LogEntry("addProtocol") EXCEPT !.name = proto])],
            PermanentRules(proto), 1),
        RequirementRules(proto), 1)

\* getRuleForRequirement for a conformance requirement: subject.[P] => subject,
\* the subject taken relative to the substitutions.
getRuleForRequirement(req, substitutions) ==
    LET subject == getRelativeTermForType(req.subject, substitutions)
    IN [LHS |-> subject \o <<forProtocol(req.proto)>>, RHS |-> subject]

\* A loop that imports the protocol of every requirement, known or not.
RECURSIVE inferRequirementsUnguarded(_, _, _, _)
inferRequirementsUnguarded(s, reqs, substitutions, k) ==
    IF k > Len(reqs) THEN s
    ELSE LET req == reqs[k]
             rule == getRuleForRequirement(req, substitutions)
         IN inferRequirementsUnguarded(
                addRule(addProtocol(s, req.proto), rule.LHS, rule.RHS, NoPath, FALSE,
                        "conditional", <<0, 0>>),
                reqs, substitutions, k + 1)

RECURSIVE inferRequirementsFrom(_, _, _, _)
inferRequirementsFrom(s, reqs, substitutions, k) ==
    IF k > Len(reqs) THEN s
    ELSE LET req == reqs[k]
             s1 == IF req.proto \notin s.KnownProtocols THEN addProtocol(s, req.proto) ELSE s
             rule == getRuleForRequirement(req, substitutions)
         IN inferRequirementsFrom(
                addRule(s1, rule.LHS, rule.RHS, NoPath, FALSE, "conditional", <<0, 0>>),
                reqs, substitutions, k + 1)

inferConditionalRequirements(s, concrete, substitutions) ==
    LET conditionalRequirements == getConditionalRequirements(concrete)
        called == [s EXCEPT !.Log = Append(@, [LogEntry("inferConditionalRequirements") EXCEPT
                                                  !.name = concrete])]
    IN IF conditionalRequirements = <<>> THEN called
       ELSE inferRequirementsFrom(called, conditionalRequirements, substitutions, 1)

(***************************************************************************)
(* PropertyMap::concretizeNestedTypesFromConcreteParent: iteration i of    *)
(* the loop over conformsTo, with the arguments the driver passes for bag  *)
(* b and the requirement kind.                                             *)
(***************************************************************************)
\* The arguments of the call for bag props under a requirement kind.
Arguments(props, requirementKind) ==
    LET sym == IF requirementKind = SameType THEN props.ConcreteType ELSE props.SuperclassType
    IN [key |-> props.Key,
        concreteRuleID |-> IF requirementKind = SameType
                           THEN props.ConcreteTypeRule ELSE props.SuperclassRule,
        concreteType |-> sym.type,
        substitutions |-> sym.subs,
        conformsToRules |-> props.ConformsToRules,
        conformsTo |-> props.ConformsTo]

\* conformances.push_back: the list is the bag's ConcreteConformances under
\* SameType and its SuperclassConformances under Superclass.
push_back(s, b, requirementKind, concrete) ==
    IF requirementKind = SameType
    THEN [s EXCEPT !.Entries[b].ConcreteConformances = Append(@, concrete)]
    ELSE [s EXCEPT !.Entries[b].SuperclassConformances = Append(@, concrete)]

\* A lookup that never finds the pair.
findNothing(cache, pair) == {}

find(cache, pair) == {e \in cache : e.pair = pair}

\* A marking that flips the flag.
toggleConflicting(s, ruleID) == [s EXCEPT !.Rules[ruleID].conflicting = ~@]

markConflicting(s, ruleID) == [s EXCEPT !.Rules[ruleID].conflicting = TRUE]

\* A loop over the associated types that stops after the first one.
concretizeFirstTypeWitness(s, key, requirementKind, symbol, concrete, pair, k) ==
    LET members == getAssociatedTypeMembers(symbol.proto)
    IN IF k > Len(members) THEN s
       ELSE concretizeTypeWitnessInConformance(s, key, requirementKind, symbol,
                                               concrete, members[k], pair)

RECURSIVE concretizeTypeWitnesses(_, _, _, _, _, _, _)
concretizeTypeWitnesses(s, key, requirementKind, symbol, concrete, pair, k) ==
    LET members == getAssociatedTypeMembers(symbol.proto)
    IN IF k > Len(members) THEN s
       ELSE concretizeTypeWitnesses(
                concretizeTypeWitnessInConformance(s, key, requirementKind, symbol,
                                                   concrete, members[k], pair),
                key, requirementKind, symbol, concrete, pair, k + 1)

\* A cache hit that forgets to record the conformance in the bag.
alreadyProcessedUnrecorded(s, b, requirementKind, found) == s

\* The pair was processed before: record the conformance and move on.
alreadyProcessed(s, b, requirementKind, found) ==
    push_back(s, b, requirementKind, found.concrete)

\* A conflict that flags the concrete type rule alone.
missingConformanceOneRule(s, key, requirementKind, concreteRuleID, conformanceRuleID) ==
    IF requirementKind = SameType /\ Len(s.Rules[concreteRuleID].RHS) = Len(key)
    THEN markConflicting(s, concreteRuleID) ELSE s

\* A conflict raised under either requirement kind.
missingConformanceAnyKind(s, key, requirementKind, concreteRuleID, conformanceRuleID) ==
    LET s1 == IF Len(s.Rules[concreteRuleID].RHS) = Len(key)
              THEN markConflicting(s, concreteRuleID) ELSE s
    IN IF Len(s1.Rules[conformanceRuleID].RHS) = Len(key)
       THEN markConflicting(s1, conformanceRuleID) ELSE s1

\* A conflict that flags both rules of the pair wherever they are stated.
missingConformanceWholePair(s, key, requirementKind, concreteRuleID, conformanceRuleID) ==
    IF requirementKind = SameType
    THEN markConflicting(markConflicting(s, concreteRuleID), conformanceRuleID)
    ELSE s

\* The concrete type does not conform: a conflict under SameType.
missingConformance(s, key, requirementKind, concreteRuleID, conformanceRuleID) ==
    IF requirementKind = SameType
    THEN LET s1 == IF Len(s.Rules[concreteRuleID].RHS) = Len(key)
                   THEN markConflicting(s, concreteRuleID) ELSE s
         IN IF Len(s1.Rules[conformanceRuleID].RHS) = Len(key)
            THEN markConflicting(s1, conformanceRuleID) ELSE s1
    ELSE s

\* A new conformance whose conditional requirements are inferred whatever
\* the key is rooted in.
newConformanceAnyRoot(s, b, requirementKind, a, proto, pair, concrete) ==
    LET inserted == [s EXCEPT
                       !.ConcreteConformances = @ \cup {[pair |-> pair, concrete |-> concrete]},
                       !.Log = Append(@, [LogEntry("insert") EXCEPT
                                             !.pair = pair, !.name = concrete,
                                             !.key = a.key, !.kind = requirementKind])]
        pushed == push_back(inserted, b, requirementKind, concrete)
        concreteConformanceSymbol ==
            forConcreteConformance(a.concreteType, a.substitutions, proto)
        recorded == recordConcreteConformanceRule(pushed, pair[1], pair[2], requirementKind,
                                                  concreteConformanceSymbol)
        witnessed == concretizeTypeWitnesses(recorded, a.key, requirementKind,
                                             concreteConformanceSymbol, concrete, pair, 1)
    IN inferConditionalRequirements(witnessed, concrete, a.substitutions)

\* The conformance is new: cache it, record it, and derive its rules.
newConformance(s, b, requirementKind, a, proto, pair, concrete) ==
    LET inserted == [s EXCEPT
                       !.ConcreteConformances = @ \cup {[pair |-> pair, concrete |-> concrete]},
                       !.Log = Append(@, [LogEntry("insert") EXCEPT
                                             !.pair = pair, !.name = concrete,
                                             !.key = a.key, !.kind = requirementKind])]
        pushed == push_back(inserted, b, requirementKind, concrete)
        concreteConformanceSymbol ==
            forConcreteConformance(a.concreteType, a.substitutions, proto)
        recorded == recordConcreteConformanceRule(pushed, pair[1], pair[2], requirementKind,
                                                  concreteConformanceSymbol)
        witnessed == concretizeTypeWitnesses(recorded, a.key, requirementKind,
                                             concreteConformanceSymbol, concrete, pair, 1)
    IN IF getRootProtocol(a.key) = ""
       THEN inferConditionalRequirements(witnessed, concrete, a.substitutions)
       ELSE witnessed

\* A loop body without the check for an already processed pair.
concretizeWithoutCache(s, b, requirementKind, i) ==
    LET a == Arguments(s.Entries[b], requirementKind)
        proto == a.conformsTo[i]
        conformanceRuleID == a.conformsToRules[i]
        pair == <<a.concreteRuleID, conformanceRuleID>>
        conformance == lookupConformance(a.concreteType, proto)
    IN IF conformance = Invalid
       THEN missingConformance(s, a.key, requirementKind, a.concreteRuleID, conformanceRuleID)
       ELSE newConformance(s, b, requirementKind, a, proto, pair, conformance)

concretizeNestedTypesFromConcreteParent(s, b, requirementKind, i) ==
    LET a == Arguments(s.Entries[b], requirementKind)
        proto == a.conformsTo[i]
        conformanceRuleID == a.conformsToRules[i]
        pair == <<a.concreteRuleID, conformanceRuleID>>
        found == find(s.ConcreteConformances, pair)
        conformance == lookupConformance(a.concreteType, proto)
    IN IF found # {}
       THEN alreadyProcessed(s, b, requirementKind, CHOOSE e \in found : TRUE)
       ELSE IF conformance = Invalid
       THEN missingConformance(s, a.key, requirementKind, a.concreteRuleID, conformanceRuleID)
       ELSE newConformance(s, b, requirementKind, a, proto, pair, conformance)

(***************************************************************************)
(* PropertyMap::concretizeNestedTypesFromConcreteParents: the iterations   *)
(* of one pass over the entries, in order.  A position is a bag, the       *)
(* requirement kind of the call, and the index into conformsTo.            *)
(***************************************************************************)
Calls(props, b, requirementKind) ==
    [i \in 1..Len(props.ConformsTo) |-> [b |-> b, kind |-> requirementKind, i |-> i]]

\* A driver that takes the superclass bound only when there is no concrete type.
DispatchEither(props, b) ==
    IF props.ConformsTo = <<>> THEN <<>>
    ELSE IF props.hasConcrete THEN Calls(props, b, SameType)
    ELSE IF props.hasSuperclass THEN Calls(props, b, Superclass)
    ELSE <<>>

Dispatch(props, b) ==
    IF props.ConformsTo = <<>> THEN <<>>
    ELSE (IF props.hasConcrete THEN Calls(props, b, SameType) ELSE <<>>)
         \o (IF props.hasSuperclass THEN Calls(props, b, Superclass) ELSE <<>>)

RECURSIVE Schedule(_, _, _)
Schedule(entries, order, k) ==
    IF k > Len(order) THEN <<>>
    ELSE Dispatch(entries[order[k]], order[k]) \o Schedule(entries, order, k + 1)

\* Entries is visited in the order the bags were created.
EntriesOrder(entries) == [k \in 1..Len(entries) |-> k]

\* One iteration: the call is logged when its first iteration starts.
Iterate(s, pos) ==
    LET a == Arguments(s.Entries[pos.b], pos.kind)
        called == IF pos.i = 1
                  THEN [s EXCEPT !.Log = Append(@,
                          [LogEntry("concretizeNestedTypesFromConcreteParent") EXCEPT
                              !.key = a.key, !.kind = pos.kind,
                              !.pair = <<a.concreteRuleID, 0>>])]
                  ELSE s
    IN concretizeNestedTypesFromConcreteParent(called, pos.b, pos.kind, pos.i)

RECURSIVE IterateFrom(_, _, _)
IterateFrom(s, schedule, k) ==
    IF k > Len(schedule) THEN s
    ELSE IterateFrom(Iterate(s, schedule[k]), schedule, k + 1)

\* The whole pass, the entries visited in the given order.
concretizeNestedTypesFromConcreteParents(s, order) ==
    IterateFrom(s, Schedule(s.Entries, order, 1), 1)

(***************************************************************************)
(* The state machine: completion rounds, each one rebuilding the property  *)
(* map and running one driver pass over it.                                *)
(***************************************************************************)
State ==
    [Rules |-> Rules, Relations |-> Relations, KnownProtocols |-> KnownProtocols,
     ConcreteConformances |-> ConcreteConformances, Entries |-> Entries, Log |-> Log]

Becomes(s) ==
    /\ Rules' = s.Rules
    /\ Relations' = s.Relations
    /\ KnownProtocols' = s.KnownProtocols
    /\ ConcreteConformances' = s.ConcreteConformances
    /\ Entries' = s.Entries
    /\ Log' = s.Log

\* The protocols a rule mentions.
ProtocolsOf(rule) ==
    {rule.LHS[i].proto : i \in {j \in 1..Len(rule.LHS) : rule.LHS[j].proto # ""}}

\* The rules of BaseRules with the chosen indices, in order.
RECURSIVE Chosen(_, _)
Chosen(ids, k) ==
    IF k > Len(BaseRules) THEN <<>>
    ELSE (IF k \in ids THEN <<BaseRules[k]>> ELSE <<>>) \o Chosen(ids, k + 1)

\* The bags with the conformances of the last pass forgotten.
Fresh(entries) ==
    [b \in 1..Len(entries) |->
        [entries[b] EXCEPT !.ConcreteConformances = <<>>, !.SuperclassConformances = <<>>]]

Positions == Schedule(Entries, EntriesOrder(Entries), 1)

Running == pc \in 1..Len(Positions)

Returned == pc = Len(Positions) + 1

Init ==
    /\ \E ids \in SUBSET (1..Len(BaseRules)) :
          /\ Cardinality(ids) <= MaxRules
          /\ Rules = Chosen(ids, 1)
          /\ KnownProtocols = UNION {ProtocolsOf(BaseRules[i]) : i \in ids}
    /\ Relations = <<>>
    /\ ConcreteConformances = {}
    /\ Entries = <<>>
    /\ Log = <<>>
    /\ pc = 0
    /\ round = 0
    /\ rerun = FALSE
    /\ start = [Rules |-> <<>>, ConcreteConformances |-> {}, Log |-> 0, endRules |-> <<>>]
    /\ last = [branch |-> "none", b |-> 0, kind |-> "", i |-> 0]
    /\ SGF = [ExpectedExecutor |-> <<>>, B |-> <<>>]
    /\ Breadcrumbs = <<>>
    /\ phase = "none"

\* A completion round begins: the property map is rebuilt from the rules and
\* the driver pass starts.
BuildPropertyMap ==
    /\ pc = 0
    /\ round < MaxRounds
    /\ Entries' = buildPropertyMap(Rules)
    /\ pc' = 1
    /\ round' = round + 1
    /\ rerun' = (round >= 1 /\ Rules = start.endRules
                 /\ buildPropertyMap(Rules) = Fresh(Entries))
    /\ start' = [Rules |-> Rules, ConcreteConformances |-> ConcreteConformances,
                 Log |-> Len(Log), endRules |-> Rules]
    /\ UNCHANGED <<Rules, Relations, KnownProtocols, ConcreteConformances, Log, last>>
    /\ UNCHANGED silgen

\* The pair at the position of the pass.
PairAt(entries, pos) ==
    <<Arguments(entries[pos.b], pos.kind).concreteRuleID,
      entries[pos.b].ConformsToRules[pos.i]>>

ConformanceAt(entries, pos) ==
    lookupConformance(Arguments(entries[pos.b], pos.kind).concreteType,
                      entries[pos.b].ConformsTo[pos.i])

\* An iteration that finds its pair in the cache.
AlreadyProcessed ==
    /\ Running
    /\ find(ConcreteConformances, PairAt(Entries, Positions[pc])) # {}
    /\ Becomes(Iterate(State, Positions[pc]))
    /\ pc' = pc + 1
    /\ last' = [branch |-> "hit", b |-> Positions[pc].b, kind |-> Positions[pc].kind,
                i |-> Positions[pc].i]
    /\ UNCHANGED <<round, rerun, start>>
    /\ UNCHANGED silgen

\* An iteration whose concrete type does not conform to the protocol.
MissingConformance ==
    /\ Running
    /\ find(ConcreteConformances, PairAt(Entries, Positions[pc])) = {}
    /\ ConformanceAt(Entries, Positions[pc]) = Invalid
    /\ Becomes(Iterate(State, Positions[pc]))
    /\ pc' = pc + 1
    /\ last' = [branch |-> "missing", b |-> Positions[pc].b, kind |-> Positions[pc].kind,
                i |-> Positions[pc].i]
    /\ UNCHANGED <<round, rerun, start>>
    /\ UNCHANGED silgen

\* An iteration that resolves a new conformance.
NewConformance ==
    /\ Running
    /\ find(ConcreteConformances, PairAt(Entries, Positions[pc])) = {}
    /\ ConformanceAt(Entries, Positions[pc]) # Invalid
    /\ Becomes(Iterate(State, Positions[pc]))
    /\ pc' = pc + 1
    /\ last' = [branch |-> "new", b |-> Positions[pc].b, kind |-> Positions[pc].kind,
                i |-> Positions[pc].i]
    /\ UNCHANGED <<round, rerun, start>>
    /\ UNCHANGED silgen

\* The pass returns.
Return ==
    /\ pc > 0
    /\ Returned
    /\ pc' = 0
    /\ start' = [start EXCEPT !.endRules = Rules]
    /\ UNCHANGED <<Rules, Relations, KnownProtocols, ConcreteConformances, Entries,
                   Log, round, rerun, last>>
    /\ UNCHANGED silgen

\* The rules completion can put in the store between two rounds: a
\* conformance the concrete type of T lacks, one it has, and a property of a
\* longer key, which inherits the pairs of its suffix.
CompletedRules == {1, 2, 8}

\* Between two rounds completion puts one more rule in the store.
CompletionAddsRule ==
    /\ pc = 0
    /\ round \in 1..(MaxRounds - 1)
    /\ Len(Rules) = Len(start.endRules)
    /\ \E k \in CompletedRules :
          /\ \A i \in 1..Len(Rules) :
                ~(Rules[i].LHS = BaseRules[k].LHS /\ Rules[i].RHS = BaseRules[k].RHS)
          /\ Rules' = Append(Rules, BaseRules[k])
          /\ KnownProtocols' = KnownProtocols \cup ProtocolsOf(BaseRules[k])
    /\ UNCHANGED <<Relations, ConcreteConformances, Entries, Log, pc, round, rerun,
                   start, last>>
    /\ UNCHANGED silgen

Next ==
    \/ BuildPropertyMap
    \/ AlreadyProcessed
    \/ MissingConformance
    \/ NewConformance
    \/ Return
    \/ CompletionAddsRule

Spec == Init /\ [][Next]_vars

(***************************************************************************)
(* SILGenConcurrency: the function being emitted.                          *)
(***************************************************************************)
\* The kinds of ActorIsolation.  Erased is left out: each switch of the file
\* marks it unreachable, for a declaration, for a closure and for an executor.
Unspecified == "Unspecified"

Nonisolated == "Nonisolated"

NonisolatedUnsafe == "NonisolatedUnsafe"

ActorInstance == "ActorInstance"

GlobalActor == "GlobalActor"

\* An ActorIsolation: its kind and the actor instance or global actor type.
Isolation(kind, actor) == [kind |-> kind, actor |-> actor]

\* A null SILValue.
NoExecutor == <<>>

\* std::optional: std::nullopt and a value.
None == <<>>

Some(value) == <<value>>

\* The isolations a declaration or a closure can have.
Isolations ==
    {Isolation(Unspecified, ""), Isolation(Nonisolated, ""),
     Isolation(NonisolatedUnsafe, ""), Isolation(ActorInstance, "actor"),
     Isolation(GlobalActor, "MainActor")}

\* FunctionDC.  A function declaration has the attributes the prolog reads:
\* isLocalCapture, the UnsafeInheritExecutor attribute, the isolated
\* parameter among its lowered captures (only a local function isolated to an
\* actor instance has one) and the index getActorInstanceParameter gives
\* (0 is self).  A destructor is a function declaration without them, a
\* closure is an AbstractClosureExpr, and "other" is any other context.
DeclContext(kind, isolation, local, unsafe, capture, parameter) ==
    [kind |-> kind, isolation |-> isolation, isLocalCapture |-> local,
     unsafeInheritExecutor |-> unsafe, isolatedParamCapture |-> capture,
     actorInstanceParameter |-> parameter]

FunctionContexts ==
    {DeclContext("function", iso, l, u, c, n) :
        iso \in Isolations, l \in BOOLEAN, u \in BOOLEAN, c \in BOOLEAN, n \in {0, 1}}

DeclContexts ==
    {dc \in FunctionContexts :
        /\ dc.isolatedParamCapture =>
              dc.isolation.kind = ActorInstance /\ dc.isLocalCapture
        /\ dc.actorInstanceParameter = 1 => dc.isolation.kind = ActorInstance}
    \cup {DeclContext(kind, iso, FALSE, FALSE, FALSE, 0) :
              kind \in {"closure", "destructor"}, iso \in Isolations}
    \cup {DeclContext("other", Isolation(Unspecified, ""), FALSE, FALSE, FALSE, 0)}

\* The contexts around FunctionDC, innermost first, up to the module scope:
\* local contexts, destructors and type contexts.
Enclosing(kind, isolation) == [kind |-> kind, isolation |-> isolation]

EnclosingContexts ==
    {<<>>,
     <<Enclosing("local", Isolation(Unspecified, ""))>>,
     <<Enclosing("destructor", Isolation(ActorInstance, "actor"))>>,
     <<Enclosing("destructor", Isolation(GlobalActor, "MainActor"))>>,
     <<Enclosing("local", Isolation(Unspecified, "")),
       Enclosing("destructor", Isolation(ActorInstance, "actor"))>>,
     <<Enclosing("type", Isolation(Unspecified, "")),
       Enclosing("destructor", Isolation(ActorInstance, "actor"))>>}

\* What the emission reads from the module and the AST context: the option
\* EnableActorDataRaceChecks, whether the module has the intrinsic
\* _checkExpectedExecutor, LangOpts.DisableAvailabilityChecking, and whether
\* the deployment target is within the intrinsic's availability.
Modules ==
    [EnableActorDataRaceChecks : BOOLEAN, checkExecutor : BOOLEAN,
     DisableAvailabilityChecking : BOOLEAN, deploymentContained : BOOLEAN]

\* The hops one function's body may ask for.
MaxHops == 1

\* The SILGenFunction before the prolog: no expected executor, nothing built.
SILGenFunctions ==
    {[F |-> [isAsync |-> a, isDefer |-> d], FunctionDC |-> dc, Parents |-> ps,
      SGM |-> m, ExpectedExecutor |-> NoExecutor, B |-> <<>>] :
        a \in BOOLEAN, d \in BOOLEAN, dc \in DeclContexts,
        ps \in EnclosingContexts, m \in Modules}

\* SILBuilder: an instruction is appended to the function; "by" tells which
\* operation built it.
Instruction(op, operand, mandatory, by) ==
    [op |-> op, operand |-> operand, mandatory |-> mandatory, by |-> by]

createHopToExecutor(sgf, executor, mandatory, by) ==
    [sgf EXCEPT !.B = Append(@, Instruction("hop_to_executor", executor, mandatory, by))]

\* isInActorDestructor: the walk from a context outwards stops at the module
\* scope and at a type context, and at the first destructor it answers
\* whether that destructor is isolated to an actor instance.
RECURSIVE isInActorDestructor(_, _)
isInActorDestructor(chain, i) ==
    IF i > Len(chain) \/ chain[i].kind = "type" THEN FALSE
    ELSE IF chain[i].kind = "destructor"
    THEN chain[i].isolation.kind = ActorInstance
    ELSE isInActorDestructor(chain, i + 1)

\* dyn_cast<AbstractFunctionDecl>(FunctionDC)
isFunctionDecl(dc) == dc.kind \in {"function", "destructor"}

\* Dynamic checks wanted wherever the option asks for them.
wantDataRaceChecksEverywhere(sgf) ==
    sgf.SGM.EnableActorDataRaceChecks /\ ~sgf.F.isAsync

wantDataRaceChecks(sgf) ==
    /\ sgf.SGM.EnableActorDataRaceChecks
    /\ ~sgf.F.isAsync
    /\ ~isInActorDestructor(<<sgf.FunctionDC>> \o sgf.Parents, 1)
    /\ ~sgf.F.isDefer

\* SILGenFunction::emitLoadActorExecutor: the actor reference itself.
emitLoadActorExecutor(actor) == <<"actor", actor>>

\* loadExpectedExecutorForLocalVar: the variable is loaded and its executor
\* becomes the expected executor.
loadExpectedExecutorForLocalVar(sgf, var) ==
    [sgf EXCEPT !.B = Append(@, Instruction("load", <<var>>, FALSE, "emitRValueForDecl")),
                !.ExpectedExecutor = emitLoadActorExecutor(var)]

\* NominalTypeDecl::getGlobalActorInstance: the shared instance of a global
\* actor type.
getGlobalActorInstance(globalActor) ==
    CASE globalActor = "MainActor" -> "MainActor.shared"
      [] globalActor = "Store" -> "Store.shared"

\* SILGenFunction::emitLoadGlobalActorExecutor: the shared instance of the
\* global actor is loaded; its value is globalActorExecutor.
globalActorExecutor(globalActor) ==
    emitLoadActorExecutor(getGlobalActorInstance(globalActor))

emitLoadGlobalActorExecutor(sgf, globalActor) ==
    [sgf EXCEPT !.B = Append(@, Instruction("load", <<getGlobalActorInstance(globalActor)>>,
                                            FALSE, "emitLoadOfGlobalActorShared"))]

\* SILGenFunction::emitGenericExecutor: the nil value of
\* Optional<Builtin.SerialExecutor>.
genericExecutor == <<"none">>

emitGenericExecutor(sgf) ==
    [sgf EXCEPT !.B = Append(@, Instruction("enum", genericExecutor, FALSE,
                                            "emitGenericExecutor"))]

\* SILGenFunction::unsafelyInheritsExecutor
unsafelyInheritsExecutor(sgf) ==
    isFunctionDecl(sgf.FunctionDC) /\ sgf.FunctionDC.unsafeInheritExecutor

\* isCheckExpectedExecutorIntrinsicAvailable
isCheckExpectedExecutorIntrinsicAvailable(sgm) ==
    IF ~sgm.checkExecutor THEN FALSE
    ELSE IF ~sgm.DisableAvailabilityChecking THEN sgm.deploymentContained
    ELSE TRUE

\* SILGenFunction::emitPreconditionCheckExpectedExecutor(loc, executorOrActor)
emitPreconditionCheckExpectedExecutor(sgf, executorOrActor) ==
    IF ~isCheckExpectedExecutorIntrinsicAvailable(sgf.SGM) THEN sgf
    ELSE [sgf EXCEPT !.B = @ \o
            <<Instruction("extract_executor", executorOrActor, FALSE,
                          "emitPreconditionCheckExpectedExecutor"),
              Instruction("apply", executorOrActor, FALSE,
                          "emitPreconditionCheckExpectedExecutor")>>]

\* The executor the isolation of the function selects (the switch over the
\* isolation of the declaration or of the closure).
selectExpectedExecutor(sgf) ==
    LET dc == sgf.FunctionDC
        actorIsolation == dc.isolation
    IN IF isFunctionDecl(dc)
       THEN CASE actorIsolation.kind = ActorInstance ->
                    IF sgf.F.isAsync \/ (wantDataRaceChecks(sgf) /\ dc.isLocalCapture)
                    THEN IF dc.isolatedParamCapture
                         THEN loadExpectedExecutorForLocalVar(sgf, "isolatedParam")
                         ELSE IF dc.actorInstanceParameter = 0
                         THEN [sgf EXCEPT !.ExpectedExecutor = emitLoadActorExecutor("self")]
                         ELSE loadExpectedExecutorForLocalVar(sgf, "param")
                    ELSE sgf
              [] actorIsolation.kind = GlobalActor ->
                    IF sgf.F.isAsync \/ wantDataRaceChecks(sgf)
                    THEN [emitLoadGlobalActorExecutor(sgf, actorIsolation.actor) EXCEPT
                             !.ExpectedExecutor = globalActorExecutor(actorIsolation.actor)]
                    ELSE sgf
              [] OTHER -> sgf
       ELSE IF dc.kind = "closure"
       THEN LET wantExecutor == sgf.F.isAsync \/ wantDataRaceChecks(sgf)
            IN CASE actorIsolation.kind = ActorInstance ->
                       IF wantExecutor
                       THEN loadExpectedExecutorForLocalVar(sgf, actorIsolation.actor)
                       ELSE sgf
                 [] actorIsolation.kind = GlobalActor ->
                       IF wantExecutor
                       THEN [emitLoadGlobalActorExecutor(sgf, actorIsolation.actor) EXCEPT
                                !.ExpectedExecutor = globalActorExecutor(actorIsolation.actor)]
                       ELSE sgf
                 [] OTHER -> sgf
       ELSE sgf

\* The jump to the expected executor: a hop in an async function, a check in
\* a synchronous one.
jumpToExpectedExecutor(sgf) ==
    IF sgf.ExpectedExecutor # NoExecutor
    THEN IF sgf.F.isAsync
         THEN createHopToExecutor(sgf, sgf.ExpectedExecutor, FALSE, "emitExpectedExecutor")
         ELSE emitPreconditionCheckExpectedExecutor(sgf, sgf.ExpectedExecutor)
    ELSE sgf

\* A prolog that leaves an async function without isolation without executor.
emitExpectedExecutorNoGeneric(sgf) == jumpToExpectedExecutor(selectExpectedExecutor(sgf))

\* SILGenFunction::emitExpectedExecutor
emitExpectedExecutor(sgf) ==
    LET selected == selectExpectedExecutor(sgf)
        expected == IF /\ selected.ExpectedExecutor = NoExecutor
                       /\ sgf.F.isAsync
                       /\ ~unsafelyInheritsExecutor(sgf)
                    THEN [emitGenericExecutor(selected) EXCEPT
                             !.ExpectedExecutor = genericExecutor]
                    ELSE selected
    IN jumpToExpectedExecutor(expected)

\* ExecutorBreadcrumb: the empty breadcrumb has nothing to return to.
ExecutorBreadcrumb(mustReturnToExecutor) == [mustReturnToExecutor |-> mustReturnToExecutor]

\* SILGenFunction::emitExecutor: the executor and the function with what its
\* load built.
emitExecutor(sgf, isolation, maybeSelf) ==
    CASE isolation.kind = ActorInstance ->
            [SGF |-> sgf, executor |-> Some(emitLoadActorExecutor(maybeSelf[1]))]
      [] isolation.kind = GlobalActor ->
            [SGF |-> emitLoadGlobalActorExecutor(sgf, isolation.actor),
             executor |-> Some(globalActorExecutor(isolation.actor))]
      [] OTHER -> [SGF |-> sgf, executor |-> None]

\* SILGenFunction::emitHopToTargetExecutor
emitHopToTargetExecutor(sgf, executor) ==
    [SGF |-> createHopToExecutor(sgf, executor, FALSE, "emitHopToTargetExecutor"),
     breadcrumb |-> ExecutorBreadcrumb(TRUE)]

\* A hop to a target that leaves no way back.
emitHopWithoutBreadcrumb(sgf, maybeIso, maybeSelf) ==
    IF maybeIso = None
    THEN [SGF |-> sgf, breadcrumb |-> ExecutorBreadcrumb(FALSE)]
    ELSE LET executor == emitExecutor(sgf, maybeIso[1], maybeSelf)
         IN IF executor.executor # None
            THEN [emitHopToTargetExecutor(executor.SGF, executor.executor[1]) EXCEPT
                     !.breadcrumb = ExecutorBreadcrumb(FALSE)]
            ELSE [SGF |-> executor.SGF, breadcrumb |-> ExecutorBreadcrumb(FALSE)]

\* SILGenFunction::emitHopToTargetActor
emitHopToTargetActor(sgf, maybeIso, maybeSelf) ==
    IF maybeIso = None
    THEN [SGF |-> sgf, breadcrumb |-> ExecutorBreadcrumb(FALSE)]
    ELSE LET executor == emitExecutor(sgf, maybeIso[1], maybeSelf)
         IN IF executor.executor # None
            THEN emitHopToTargetExecutor(executor.SGF, executor.executor[1])
            ELSE [SGF |-> executor.SGF, breadcrumb |-> ExecutorBreadcrumb(FALSE)]

\* A breadcrumb that hops back whether it must or not.
emitAlways(breadcrumb, sgf) ==
    IF sgf.ExpectedExecutor # NoExecutor
    THEN createHopToExecutor(sgf, sgf.ExpectedExecutor, FALSE, "ExecutorBreadcrumb::emit")
    ELSE sgf

\* ExecutorBreadcrumb::emit
emit(breadcrumb, sgf) ==
    IF breadcrumb.mustReturnToExecutor /\ sgf.ExpectedExecutor # NoExecutor
    THEN createHopToExecutor(sgf, sgf.ExpectedExecutor, FALSE, "ExecutorBreadcrumb::emit")
    ELSE sgf

\* The assertion ExecutorBreadcrumb::emit makes before it hops.
emitAsserts(breadcrumb, sgf) ==
    breadcrumb.mustReturnToExecutor =>
        sgf.ExpectedExecutor # NoExecutor \/ unsafelyInheritsExecutor(sgf)

(***************************************************************************)
(* The emission of one function.                                           *)
(***************************************************************************)
\* The isolations a body hops to, with the actor value that goes with them.
Targets ==
    {[maybeIso |-> None, maybeSelf |-> None]}
    \cup {[maybeIso |-> Some(Isolation(kind, "")), maybeSelf |-> None] :
             kind \in {Unspecified, Nonisolated, NonisolatedUnsafe}}
    \cup {[maybeIso |-> Some(Isolation(ActorInstance, "other")), maybeSelf |-> Some("other")],
          [maybeIso |-> Some(Isolation(GlobalActor, "Store")), maybeSelf |-> None]}

SILGenInit ==
    /\ Rules = <<>>
    /\ KnownProtocols = {}
    /\ Relations = <<>>
    /\ ConcreteConformances = {}
    /\ Entries = <<>>
    /\ Log = <<>>
    /\ pc = 0
    /\ round = 0
    /\ rerun = FALSE
    /\ start = [Rules |-> <<>>, ConcreteConformances |-> {}, Log |-> 0, endRules |-> <<>>]
    /\ last = [branch |-> "none", b |-> 0, kind |-> "", i |-> 0]
    /\ SGF \in SILGenFunctions
    /\ Breadcrumbs = <<>>
    /\ phase = "prolog"

\* The variables of the requirement machine, which the emission leaves alone.
machine ==
    <<Rules, Relations, KnownProtocols, ConcreteConformances, Entries, Log, pc, round,
      rerun, start, last>>

\* The prolog of the function sets up its expected executor.
EmitExpectedExecutor ==
    /\ phase = "prolog"
    /\ SGF' = emitExpectedExecutor(SGF)
    /\ phase' = "body"
    /\ UNCHANGED <<Breadcrumbs, machine>>

\* The body hops to the actor of a callee and keeps the breadcrumb.
EmitHopToTargetActor ==
    /\ phase = "body"
    /\ Len(Breadcrumbs) < MaxHops
    /\ \E target \in Targets :
          LET hop == emitHopToTargetActor(SGF, target.maybeIso, target.maybeSelf)
          IN /\ SGF' = hop.SGF
             /\ Breadcrumbs' = Append(Breadcrumbs, [breadcrumb |-> hop.breadcrumb,
                                                    maybeIso |-> target.maybeIso,
                                                    emitted |-> FALSE])
    /\ UNCHANGED <<phase, machine>>

\* The body emits a breadcrumb it holds, after the call it hopped for.  When
\* the assertion of emit fails the build with assertions stops there, and the
\* build without them goes on.
EmitBreadcrumb ==
    /\ phase = "body"
    /\ \E k \in 1..Len(Breadcrumbs) :
          /\ ~Breadcrumbs[k].emitted
          /\ \/ /\ SGF' = emit(Breadcrumbs[k].breadcrumb, SGF)
                /\ Breadcrumbs' = [Breadcrumbs EXCEPT ![k].emitted = TRUE]
                /\ phase' = phase
             \/ /\ ~emitAsserts(Breadcrumbs[k].breadcrumb, SGF)
                /\ phase' = "aborted"
                /\ UNCHANGED <<SGF, Breadcrumbs>>
    /\ UNCHANGED machine

SILGenNext ==
    \/ EmitExpectedExecutor
    \/ EmitHopToTargetActor
    \/ EmitBreadcrumb

SILGenSpec == SILGenInit /\ [][SILGenNext]_vars

(***************************************************************************)
(* Properties.                                                             *)
(***************************************************************************)
\* The calls made since the running pass began.
Since == (start.Log + 1)..Len(Log)

\* The position the last iteration was at, in the running pass.
Iterated == pc > 1 /\ last.branch # "none"

KeyAt(entries, pos) == entries[pos.b].Key

\* C1: over any sequence of rounds, a (concreteRuleId, conformanceRuleId) pair
\* is inserted into ConcreteConformances at most once (the cache holds one
\* conformance per pair), recordConcreteConformanceRule runs at most once for
\* the pair and concretizeTypeWitnessInConformance at most once for each of its
\* member types; and the compound rule is recorded right after the insertion,
\* never for a pair that was in the cache already.
C1_AtMostOnce ==
    /\ \A e1, e2 \in ConcreteConformances : e1.pair = e2.pair => e1 = e2
    /\ \A i, j \in 1..Len(Log) :
          ~ /\ i < j
            /\ Log[i].op \in {"insert", "recordConcreteConformanceRule",
                              "concretizeTypeWitnessInConformance"}
            /\ Log[j].op = Log[i].op
            /\ Log[j].pair = Log[i].pair
            /\ Log[j].member = Log[i].member
    /\ \A j \in 1..Len(Log) :
          Log[j].op = "recordConcreteConformanceRule" =>
             /\ j > 1
             /\ Log[j - 1].op = "insert"
             /\ Log[j - 1].pair = Log[j].pair

\* A pair resolved in an earlier round is met again in a later one.
C1_Witness ==
    /\ round >= 2
    /\ Iterated
    /\ last.branch = "hit"
    /\ \E j \in 1..start.Log :
          Log[j].op = "insert" /\ Log[j].pair = PairAt(Entries, last)

\* The iterations of the running pass whose concrete type, under SameType,
\* does not conform to the protocol.
MissingUnderSameType ==
    {k \in 1..Len(Positions) :
        /\ Positions[k].kind = SameType
        /\ ConformanceAt(Entries, Positions[k]) = Invalid}

\* C2 as stated: after the pass, for every key and pair whose concrete type
\* lacks the conformance under SameType, both rules of the pair are flagged
\* conflicting, inherited rules included.
C2_BothFlagged ==
    Returned =>
        \A k \in MissingUnderSameType :
            /\ Rules[PairAt(Entries, Positions[k])[1]].conflicting
            /\ Rules[PairAt(Entries, Positions[k])[2]].conflicting

\* C2, amended: after the pass, for every key and pair whose concrete type
\* lacks the conformance under SameType, each rule of the pair that is stated
\* on the key itself (its right-hand side has the key's length) is flagged
\* conflicting; both are when both are stated on the key.
C2_FlaggedOnKey ==
    Returned =>
        \A k \in MissingUnderSameType :
            \A n \in 1..2 :
                LET rule == Rules[PairAt(Entries, Positions[k])[n]]
                IN Len(rule.RHS) = Len(KeyAt(Entries, Positions[k])) => rule.conflicting

\* A pass has returned after a conflict between two rules of the same key.
C2_Witness ==
    /\ Returned
    /\ \E k \in MissingUnderSameType :
          \A n \in 1..2 :
              LET rule == Rules[PairAt(Entries, Positions[k])[n]]
              IN /\ Len(rule.RHS) = Len(KeyAt(Entries, Positions[k]))
                 /\ rule.conflicting

\* The rule without its conflicting flag.
Unflagged(rule) == [rule EXCEPT !.conflicting = FALSE]

\* C3: an iteration whose lookup yields no conformance changes nothing but
\* conflicting flags: the cache, the bags (their resolved-conformances lists
\* included), the relations and the known protocols are unchanged, no rule is
\* added and no call but the start of the per-parent call itself is made; under
\* Superclass the rule store is unchanged as a whole.
C3_MissingChangesOnlyFlags ==
    [][(/\ Running
        /\ find(ConcreteConformances, PairAt(Entries, Positions[pc])) = {}
        /\ ConformanceAt(Entries, Positions[pc]) = Invalid
        /\ pc' = pc + 1)
       => /\ ConcreteConformances' = ConcreteConformances
          /\ Entries' = Entries
          /\ Relations' = Relations
          /\ KnownProtocols' = KnownProtocols
          /\ Len(Rules') = Len(Rules)
          /\ \A r \in 1..Len(Rules) : Unflagged(Rules'[r]) = Unflagged(Rules[r])
          /\ \A j \in (Len(Log) + 1)..Len(Log') :
                Log'[j].op = "concretizeNestedTypesFromConcreteParent"
          /\ (Positions[pc].kind = Superclass => Rules' = Rules)]_vars

\* A superclass bound that does not conform to a protocol of its key has
\* just been processed.
C3_Witness ==
    /\ Iterated
    /\ last.branch = "missing"
    /\ last.kind = Superclass
    /\ Len(Rules[PairAt(Entries, last)[1]].RHS) = Len(KeyAt(Entries, last))

\* C4 as stated: no compound conformance rule and no member-type rule is
\* synthesized from a pair one of whose rules was flagged conflicting when the
\* rule was synthesized.
C4_NoConflictingEvidence ==
    \A j \in 1..Len(Log) :
        (Log[j].op = "addRule" /\ Log[j].name \in {"compound", "witness"})
            => ~Log[j].flagged

\* What a pass leaves in the store, by content: the rules as (LHS, RHS) and
\* those of them that are flagged conflicting.
Content(s) ==
    [rules |-> {<<s.Rules[i].LHS, s.Rules[i].RHS>> : i \in 1..Len(s.Rules)},
     conflicting |-> {<<s.Rules[i].LHS, s.Rules[i].RHS>> :
                         i \in {j \in 1..Len(s.Rules) : s.Rules[j].conflicting}}]

\* The orders in which n entries can be visited.
Orders(n) ==
    {o \in [1..n -> 1..n] : \A i, j \in 1..n : o[i] = o[j] => i = j}

C6_ClosedPassAddsNothing ==
    (rerun /\ pc > 0) =>
        /\ Rules = start.Rules
        /\ ConcreteConformances = start.ConcreteConformances
        /\ \A j \in Since : Log[j].op = "concretizeNestedTypesFromConcreteParent"

\* A repeated pass has returned after meeting a pair of the cache.
C6_Witness ==
    /\ rerun
    /\ Returned
    /\ Iterated
    /\ last.branch = "hit"

\* The worked scenario: T conforms to P and equals Foo<Int, tau_0_0> with <U>,
\* the store holds nothing else but what concretization derived from it, and
\* the last pass ran over both rules.
FooP == forConcreteConformance(FooIntT0, <<U>>, "P")

InWorkedScenario ==
    /\ Len(Rules) >= 2
    /\ Rules[1] = PropertyRule(T, forProtocol("P"))
    /\ Rules[2] = PropertyRule(T, forConcreteType(FooIntT0, <<U>>))
    /\ \A i \in 3..Len(Rules) : Rules[i].path # NoPath
    /\ round >= 1
    /\ pc = 0
    /\ Len(start.Rules) >= 2
    /\ start.Rules[1] = Rules[1]
    /\ start.Rules[2] = Rules[2]

\* A term once the compound conformance rules have reduced it: the concrete
\* conformance symbols are gone.
RECURSIVE Reduced(_)
Reduced(term) ==
    IF term = <<>> THEN <<>>
    ELSE (IF term[1].kind = "conformance" THEN <<>> ELSE <<term[1]>>) \o Reduced(Tail(term))

TA == T \o <<forAssociatedType("P", "A")>>

TC == T \o <<forAssociatedType("P", "C")>>

UV == U \o <<forAssociatedType("Q", "V")>>

InsertionsOfFooP ==
    {j \in 1..Len(Log) : Log[j].op = "insert" /\ Log[j].pair = <<2, 1>>}

\* The equation a rule states, whichever side addRule makes its left-hand
\* side, after reduction by the compound conformance rules.
Equation(lhs, rhs) == {Reduced(lhs), Reduced(rhs)}

\* C7 as stated: in the worked scenario concretization produces exactly two
\* new rules, T.A.[concrete: Int] => T.A and T.C => U.V, and the conformance
\* for (Foo<Int, U>, P) is recorded once however many rounds have run.
C7_ExactlyTwoRules ==
    InWorkedScenario =>
        /\ Len(Rules) = 4
        /\ {Equation(Rules[i].LHS, Rules[i].RHS) : i \in 3..Len(Rules)}
             = {{TA \o <<forConcreteType(IntType, <<>>)>>, TA}, {UV, TC}}
        /\ Cardinality(InsertionsOfFooP) = 1

\* C7, amended: in the worked scenario concretization makes exactly three
\* addRule calls, each once however many rounds have run: the compound
\* conformance rule T.[concrete: Foo<Int, U> : P] => T, and the two member-type
\* rules T.S.A.[concrete: Int] => T.S.A and U.V => T.S.C, S being the concrete
\* conformance symbol, which state T.A.[concrete: Int] = T.A and T.C = U.V once
\* the compound rule has reduced T.S to T; the store holds three new rules; and
\* the conformance for (Foo<Int, U>, P) is recorded once.
C7_ThreeRules ==
    InWorkedScenario =>
        LET calls == SelectSeq(Log, LAMBDA e : e.op = "addRule")
        IN /\ Len(calls) = 3
           /\ <<calls[1].lhs, calls[1].rhs>> = <<T \o <<FooP>>, T>>
           /\ <<calls[2].lhs, calls[2].rhs>>
                = <<T \o <<FooP, forAssociatedType("P", "A"), forConcreteType(IntType, <<>>)>>,
                    T \o <<FooP, forAssociatedType("P", "A")>>>>
           /\ <<calls[3].lhs, calls[3].rhs>>
                = <<UV, T \o <<FooP, forAssociatedType("P", "C")>>>>
           /\ {Equation(calls[i].lhs, calls[i].rhs) : i \in 2..3}
                = {{TA \o <<forConcreteType(IntType, <<>>)>>, TA}, {UV, TC}}
           /\ Len(Rules) = 5
           /\ Cardinality(InsertionsOfFooP) = 1

\* The worked scenario after its second round.
C7_Witness == InWorkedScenario /\ round = 2

\* The addRule calls of the subsystem.
AddRuleCalls == {j \in 1..Len(Log) : Log[j].op = "addRule"}

\* C8 as stated: every rule the subsystem adds, the rules induced by
\* conditional requirements included, is added with a non-empty RewritePath.
C8_EveryRuleHasPath ==
    \A j \in AddRuleCalls : Log[j].hasPath /\ Log[j].path # <<>>

\* C8, amended: the compound conformance rule and every member-type witness
\* rule, in each of the four branches, is added with a non-empty RewritePath,
\* so the assertion of the type-witness synthesizer never fails; a rule induced
\* by a conditional requirement is added without a path.
C8_DerivedRulesHavePath ==
    /\ \A j \in AddRuleCalls :
          /\ Log[j].name \in {"compound", "witness"} =>
                Log[j].hasPath /\ Log[j].path # <<>>
          /\ Log[j].name = "conditional" => ~Log[j].hasPath
    /\ \A j \in 1..Len(Log) :
          Log[j].op = "concretizeTypeWitnessInConformance" =>
             /\ Log[j].name \in {"abstract", "prefix", "same", "concrete"}
             /\ Log[j].path # <<>>

\* A compound rule, member-type rules and a rule of a conditional requirement
\* have been added.
C8_Witness ==
    /\ \E j \in AddRuleCalls : Log[j].name = "compound"
    /\ \E j \in AddRuleCalls : Log[j].name = "witness"
    /\ \E j \in AddRuleCalls : Log[j].name = "conditional"
    /\ \E j \in 1..Len(Log) :
          Log[j].op = "concretizeTypeWitnessInConformance" /\ Log[j].name = "abstract"
    /\ \E j \in 1..Len(Log) :
          Log[j].op = "concretizeTypeWitnessInConformance" /\ Log[j].name = "concrete"

\* The per-parent calls of the running pass, as indices into the log.
CallsOf(key, requirementKind) ==
    {j \in Since :
        /\ Log[j].op = "concretizeNestedTypesFromConcreteParent"
        /\ Log[j].key = key
        /\ Log[j].kind = requirementKind}

\* The conformances of a type to the protocols of a list, in order.
RECURSIVE ConformancesOf(_, _)
ConformancesOf(type, protos) ==
    IF protos = <<>> THEN <<>>
    ELSE (IF lookupConformance(type, Head(protos)) = Invalid THEN <<>>
          ELSE <<lookupConformance(type, Head(protos))>>)
         \o ConformancesOf(type, Tail(protos))

\* C9: in one pass, a bag with an empty conformsTo gets no call and keeps its
\* lists empty; any other bag gets one SameType call exactly when it has a
\* concrete type and one Superclass call exactly when it has a superclass
\* bound, the SameType call first when it gets both; each call is made with the
\* rule of its own requirement and fills its own list, ConcreteConformances
\* under SameType and SuperclassConformances under Superclass; and the bags are
\* served in the order of Entries.
C9_Dispatch ==
    Returned =>
        /\ \A b \in 1..Len(Entries) :
              LET props == Entries[b]
                  same == CallsOf(props.Key, SameType)
                  super == CallsOf(props.Key, Superclass)
              IN /\ Cardinality(same) =
                       IF props.ConformsTo # <<>> /\ props.hasConcrete THEN 1 ELSE 0
                 /\ Cardinality(super) =
                       IF props.ConformsTo # <<>> /\ props.hasSuperclass THEN 1 ELSE 0
                 /\ \A j \in same : Log[j].pair[1] = props.ConcreteTypeRule
                 /\ \A j \in super : Log[j].pair[1] = props.SuperclassRule
                 /\ \A j \in same : \A k \in super : j < k
                 /\ props.ConcreteConformances =
                       IF same = {} THEN <<>>
                       ELSE ConformancesOf(props.ConcreteType.type, props.ConformsTo)
                 /\ props.SuperclassConformances =
                       IF super = {} THEN <<>>
                       ELSE ConformancesOf(props.SuperclassType.type, props.ConformsTo)
        /\ \A b1, b2 \in 1..Len(Entries) :
              b1 < b2 =>
                 \A j \in CallsOf(Entries[b1].Key, SameType) \cup CallsOf(Entries[b1].Key, Superclass) :
                    \A k \in CallsOf(Entries[b2].Key, SameType) \cup CallsOf(Entries[b2].Key, Superclass) :
                       j < k

\* A pass has returned that served a bag with a concrete type and a
\* superclass bound, and a bag without conformances.
C9_Witness ==
    /\ Returned
    /\ \E b \in 1..Len(Entries) :
          /\ Entries[b].ConformsTo # <<>>
          /\ Entries[b].hasConcrete
          /\ Entries[b].hasSuperclass
          /\ Entries[b].ConcreteConformances # <<>>
          /\ Entries[b].SuperclassConformances # <<>>
    /\ \E b \in 1..Len(Entries) : Entries[b].ConformsTo = <<>>

\* The bags with the list of one of them, under a requirement kind, extended.
WithConformance(entries, pos, concrete) ==
    IF pos.kind = SameType
    THEN [entries EXCEPT ![pos.b].ConcreteConformances = Append(@, concrete)]
    ELSE [entries EXCEPT ![pos.b].SuperclassConformances = Append(@, concrete)]

\* C10: an iteration that finds its pair in the cache appends the cached
\* conformance to the list of its bag and changes nothing else: the rule
\* store, flags included, the cache, the relations, the known protocols and
\* every other list are unchanged, and no call but the start of the per-parent
\* call itself is made.
C10_CacheHitOnlyRecords ==
    [][(/\ Running
        /\ find(ConcreteConformances, PairAt(Entries, Positions[pc])) # {}
        /\ pc' = pc + 1)
       => /\ \E e \in ConcreteConformances :
                /\ e.pair = PairAt(Entries, Positions[pc])
                /\ Entries' = WithConformance(Entries, Positions[pc], e.concrete)
          /\ Rules' = Rules
          /\ ConcreteConformances' = ConcreteConformances
          /\ Relations' = Relations
          /\ KnownProtocols' = KnownProtocols
          /\ \A j \in (Len(Log) + 1)..Len(Log') :
                Log'[j].op = "concretizeNestedTypesFromConcreteParent"]_vars

\* An iteration has just found its pair in the cache.
C10_Witness ==
    /\ Iterated
    /\ last.branch = "hit"
    /\ find(ConcreteConformances, PairAt(Entries, last)) # {}

\* The calls a step adds to the log.
Added == (Len(Log) + 1)..Len(Log')

\* The calls of a step that add the rule of a conditional requirement.
AddedConditional ==
    {j \in Added : Log'[j].op = "addRule" /\ Log'[j].name = "conditional"}

\* The n-th smallest element of a set of numbers.
Nth(set, n) == CHOOSE j \in set : Cardinality({i \in set : i < j}) = n - 1

\* C11: when the inferencer meets a requirement on a protocol the rule system
\* does not know, the protocol is registered once, its rules added, in the
\* same call and before the rule of the requirement is added, also when several
\* requirements name it; a protocol that is known is not registered again; and
\* one rule is added per desugared requirement, the rule of that requirement.
C11_RegisteredOnceBeforeUse ==
    [][/\ \A j \in AddedConditional :
            LET q == Log'[j].lhs[Len(Log'[j].lhs)].proto
                regs == {i \in Added : Log'[i].op = "addProtocol" /\ Log'[i].name = q}
            IN /\ q \in KnownProtocols'
               /\ IF q \in KnownProtocols THEN regs = {}
                  ELSE /\ Cardinality(regs) = 1
                       /\ \A i \in regs :
                             /\ i + Len(PermanentRules(q)) < j
                             /\ \A k \in 1..Len(PermanentRules(q)) :
                                   /\ Log'[i + k].op = "addPermanentRule"
                                   /\ Log'[i + k].lhs = PermanentRules(q)[k].LHS
                                   /\ Log'[i + k].rhs = PermanentRules(q)[k].RHS
                                   /\ \E r \in 1..Len(Rules') :
                                         /\ Rules'[r].LHS = PermanentRules(q)[k].LHS
                                         /\ Rules'[r].RHS = PermanentRules(q)[k].RHS
       /\ \A i \in Added :
            Log'[i].op = "inferConditionalRequirements" =>
               LET reqs == getConditionalRequirements(Log'[i].name)
                   subs == Arguments(Entries[Positions[pc].b], Positions[pc].kind).substitutions
               IN /\ Cardinality(AddedConditional) = Len(reqs)
                  /\ \A k \in 1..Len(reqs) :
                        /\ Nth(AddedConditional, k) > i
                        /\ Log'[Nth(AddedConditional, k)].lhs
                             = getRuleForRequirement(reqs[k], subs).LHS
                        /\ Log'[Nth(AddedConditional, k)].rhs
                             = getRuleForRequirement(reqs[k], subs).RHS
       /\ (\A i \in Added : Log'[i].op # "inferConditionalRequirements")
             => AddedConditional = {}]_vars

\* Two requirements on a protocol that was not known have been inferred: the
\* protocol was registered and the rule of each requirement added.
C11_Witness ==
    \E i, j, k \in 1..Len(Log) :
        /\ i < j /\ j < k
        /\ Log[i].op = "addProtocol" /\ Log[i].name = "Q"
        /\ Log[j].op = "addRule" /\ Log[j].name = "conditional"
        /\ Log[k].op = "addRule" /\ Log[k].name = "conditional"
        /\ Log[j].lhs # Log[k].lhs
        /\ Log[j].lhs[Len(Log[j].lhs)].proto = "Q"
        /\ Log[k].lhs[Len(Log[k].lhs)].proto = "Q"

\* The calls of the inferencer a step adds to the log.
AddedInferences == {i \in Added : Log'[i].op = "inferConditionalRequirements"}

\* C12: the inferencer is called only by an iteration that resolves a new
\* conformance (its pair not in the cache, the conformance found) for a key
\* whose root protocol is null, and then once, on that conformance; a rule of
\* a conditional requirement is added, or a protocol registered, only by such
\* a call on a conformance that has conditional requirements; so an iteration
\* for a key rooted in a protocol, a cache hit, a missing conformance and a
\* conformance without conditional requirements add no such rule and register
\* nothing.
C12_InferredOnlyForNewTopLevel ==
    [][/\ AddedInferences # {} =>
            /\ Running
            /\ find(ConcreteConformances, PairAt(Entries, Positions[pc])) = {}
            /\ ConformanceAt(Entries, Positions[pc]) # Invalid
            /\ getRootProtocol(KeyAt(Entries, Positions[pc])) = ""
            /\ Cardinality(AddedInferences) = 1
            /\ \A i \in AddedInferences :
                  Log'[i].name = ConformanceAt(Entries, Positions[pc])
       /\ (/\ Running
           /\ pc' = pc + 1
           /\ find(ConcreteConformances, PairAt(Entries, Positions[pc])) = {}
           /\ ConformanceAt(Entries, Positions[pc]) # Invalid
           /\ getRootProtocol(KeyAt(Entries, Positions[pc])) = "")
             => AddedInferences # {}
       /\ (\/ AddedConditional # {}
           \/ KnownProtocols' # KnownProtocols /\ pc > 0
           \/ \E i \in Added : Log'[i].op \in {"addProtocol", "addPermanentRule", "addExplicitRule"})
             => \E i \in AddedInferences : getConditionalRequirements(Log'[i].name) # <<>>]_vars

\* An iteration has just resolved, for a key rooted in a protocol, a new
\* conformance that has conditional requirements.
C12_Witness ==
    /\ Iterated
    /\ last.branch = "new"
    /\ getRootProtocol(KeyAt(Entries, last)) # ""
    /\ getConditionalRequirements(ConformanceAt(Entries, last)) # <<>>
    /\ \A j \in Since : ~(Log[j].op = "addRule" /\ Log[j].name = "conditional")

\* The calls of the type-witness synthesizer for a pair, as indices into the log.
SynthesizerCalls(pair) ==
    {j \in 1..Len(Log) :
        Log[j].op = "concretizeTypeWitnessInConformance" /\ Log[j].pair = pair}

\* The protocol of a conformance rule.
ProtocolOf(ruleID) == isPropertyRule(Rules[ruleID]).proto

\* C13: for a newly resolved conformance to P the synthesizer is called once
\* per associated type of P, in the order P declares them, and each call makes
\* one addRule call, also for a member the conformance has no witness for: the
\* error type stands for the witness, it is treated as a concrete type (the
\* rule states it as the concrete type of the subject), and the members after
\* it are processed.
C13_OneRulePerMember ==
    \A i \in 1..Len(Log) :
        Log[i].op = "insert" =>
           LET members == getAssociatedTypeMembers(ProtocolOf(Log[i].pair[2]))
               calls == SynthesizerCalls(Log[i].pair)
           IN /\ Cardinality(calls) = Len(members)
              /\ Cardinality({j \in AddRuleCalls :
                                 Log[j].name = "witness" /\ Log[j].pair = Log[i].pair})
                   = Len(members)
              /\ \A k \in 1..Len(members) :
                    LET j == Nth(calls, k)
                    IN /\ j > i
                       /\ Log[j].member = members[k]
                       /\ Log[j + 1].op = "addRule"
                       /\ Log[j + 1].name = "witness"
                       /\ Log[j + 1].pair = Log[i].pair
                       /\ Log[j + 1].rhs[Len(Log[j + 1].rhs)]
                            = forAssociatedType(ProtocolOf(Log[i].pair[2]), members[k])
                       /\ getTypeWitness(Log[i].name, members[k]) = NoWitness =>
                             /\ Log[j].name = "concrete"
                             /\ Log[j + 1].lhs = Log[j + 1].rhs
                                  \o <<forConcreteType(
                                          ErrorType(isPropertyRule(Rules[Log[i].pair[1]]).type),
                                          <<>>)>>

\* A conformance without a witness for its first member has been resolved,
\* and a rule added for that member and for the one after it.
C13_Witness ==
    \E i \in 1..Len(Log) :
        /\ Log[i].op = "insert"
        /\ getTypeWitness(Log[i].name, "A") = NoWitness
        /\ \E j, k \in SynthesizerCalls(Log[i].pair) :
              /\ j < k
              /\ Log[j].member = "A"
              /\ Log[k].member = "C"
              /\ Log[k + 1].op = "addRule"

\* C14: every step keeps the rules of the store at their ids with their
\* LHS, RHS, permanence and path, and keeps every conflicting flag that is
\* set: the store only grows, the only change to a rule is the setting of its
\* conflicting flag, and marking a flagged rule again changes nothing.  The
\* relations and the cache of conformances only grow as well.
C14_RulesOnlyGrow ==
    [][/\ Len(Rules') >= Len(Rules)
       /\ \A i \in 1..Len(Rules) :
             /\ Rules'[i].LHS = Rules[i].LHS
             /\ Rules'[i].RHS = Rules[i].RHS
             /\ Rules'[i].permanent = Rules[i].permanent
             /\ Rules'[i].path = Rules[i].path
             /\ Rules[i].conflicting => Rules'[i].conflicting
       /\ Len(Relations') >= Len(Relations)
       /\ \A i \in 1..Len(Relations) : Relations'[i] = Relations[i]
       /\ ConcreteConformances \subseteq ConcreteConformances']_vars

\* In a later round a missing conformance has marked again, under SameType,
\* rules that an earlier round flagged.
C14_Witness ==
    /\ round >= 2
    /\ Iterated
    /\ last.branch = "missing"
    /\ last.kind = SameType
    /\ Rules = start.Rules
    /\ Rules[PairAt(Entries, last)[1]].conflicting
    /\ Rules[PairAt(Entries, last)[2]].conflicting
    /\ \E i \in 1..Len(Rules) : Rules[i].path # NoPath

\* The calls of the type-witness synthesizer, as indices into the log; the
\* addRule call of each is the next entry.
Syntheses == {j \in 1..Len(Log) : Log[j].op = "concretizeTypeWitnessInConformance"}

\* The subject type T.[concrete: C : P].[P:X] of a synthesizer call, its
\* concrete conformance symbol and its associated type symbol.
SubjectOf(log, j) == log[j + 1].rhs

ConformanceSymbolOf(log, j) == log[j + 1].rhs[Len(log[j].key) + 1]

AssociatedTypeOf(log, j) == log[j + 1].rhs[Len(log[j].key) + 2]

\* The type witness of a synthesizer call.
WitnessOf(log, j) ==
    LET S == ConformanceSymbolOf(log, j)
        t == getTypeWitness(lookupConformance(S.type, S.proto), log[j].member)
    IN IF t = NoWitness THEN ErrorType(S.type) ELSE t

\* The concrete type symbol of the witness of a call, before simplification.
WitnessSymbolOf(log, j) ==
    LET rel == getRelativeSubstitutionSchemaFromType(WitnessOf(log, j),
                                                     ConformanceSymbolOf(log, j).subs)
    IN forConcreteType(rel.schema, rel.result)

\* A relation is registered under an id.
IsRelation(id, lhs, rhs) == id \in 1..Len(Relations) /\ Relations[id] = <<lhs, rhs>>

\* C15: when the witness is a type parameter tau_0_n.X...Z, and only then,
\* the synthesizer takes the abstract branch: the rule relates R and the
\* subject key.S.[P:M], R being the n-th substitution term followed by X...Z,
\* with no concrete type, superclass or conformance symbol in it, whatever
\* concrete types the prefixes of the key have; and the path is one forward
\* relation step at offset 0 for the relation (R, subject).
C15_AbstractWitness ==
    \A j \in Syntheses :
        LET w == WitnessOf(Log, j)
            S == ConformanceSymbolOf(Log, j)
            call == Log[j + 1]
        IN /\ Log[j].name = "abstract" <=> isTypeParameter(w)
           /\ isTypeParameter(w) =>
                 /\ call.op = "addRule"
                 /\ call.lhs = S.subs[w.n + 1] \o w.args
                 /\ call.rhs = Log[j].key \o <<S, forAssociatedType(S.proto, Log[j].member)>>
                 /\ \A k \in 1..Len(call.lhs) :
                       call.lhs[k].kind \notin {"concrete", "superclass", "conformance"}
                 /\ Len(call.path) = 1
                 /\ call.path[1].Kind = "Relation"
                 /\ call.path[1].StartOffset = 0
                 /\ call.path[1].Inverse = FALSE
                 /\ IsRelation(call.path[1].Arg, call.lhs, call.rhs)

\* A rule has been added for a witness tau_0_0.V, while the key itself has a
\* concrete type.
C15_Witness ==
    \E j \in Syntheses :
        /\ Log[j].name = "abstract"
        /\ WitnessOf(Log, j).args # <<>>
        /\ Log[j + 1].lhs = UV

\* The synthesizer calls a step adds to the log.
AddedSyntheses ==
    {j \in Added : Log'[j].op = "concretizeTypeWitnessInConformance"}

\* The lengths n of the prefixes of a key that qualify for the tie-off: the
\* bag found for the prefix has the witness as its concrete type.
Qualifying(key, w) ==
    {n \in 1..Len(key) :
        \E b \in 1..Len(Entries) :
            /\ b = lookUpProperties(Entries, Prefix(key, n))
            /\ Entries[b].hasConcrete
            /\ Entries[b].ConcreteType.type = w}

\* The key of the bag found for the prefix of length n.
BagKey(key, n) == Entries[lookUpProperties(Entries, Prefix(key, n))].Key

\* C16: for a witness without type parameters the prefixes of the key are
\* examined from the whole key down to the prefix of length one and the scan
\* stops at the first one whose bag has the witness as its concrete type: the
\* tie-off is taken exactly when some prefix qualifies, and with the longest
\* qualifying prefix; a witness that contains a type parameter is never tied
\* off, whatever the prefixes are.
C16_LongestPrefixFirst ==
    [][\A j \in AddedSyntheses :
          LET w == WitnessOf(Log', j)
              key == Log'[j].key
              ns == Qualifying(key, w)
          IN /\ hasTypeParameter(w) => Log'[j].name # "prefix"
             /\ ~hasTypeParameter(w) =>
                   /\ Log'[j].name = "prefix" <=> ns # {}
                   /\ ns # {} =>
                         \E n \in ns :
                            /\ \A m \in ns : m <= n
                            /\ Log'[j + 1].lhs = BagKey(key, n) \o <<WitnessSymbolOf(Log', j)>>]_vars

\* A rule has just been tied off for a key two of whose prefixes qualify,
\* with different bags.
C16_Witness ==
    /\ Iterated
    /\ last.branch = "new"
    /\ \E j \in Since \cap Syntheses :
          /\ Log[j].name = "prefix"
          /\ Log[j].key = KeyAt(Entries, last)
          /\ \E m, n \in Qualifying(Log[j].key, WitnessOf(Log, j)) :
                /\ m < n
                /\ BagKey(Log[j].key, m) # BagKey(Log[j].key, n)
                /\ Log[j + 1].lhs = BagKey(Log[j].key, n) \o <<WitnessSymbolOf(Log, j)>>

SimplifiedOf(j) == simplifySubstitutions(SubSeq(Rules, 1, Log[j].rules), WitnessSymbolOf(Log, j))

\* The path the simplification contributes: inverted when a difference was
\* reported, empty otherwise.
SubstPathOf(j) ==
    IF SimplifiedOf(j).differs THEN invert(SimplifiedOf(j).path) ELSE <<>>

\* The witness symbol after the simplification.
SimplifiedSymbolOf(j) ==
    IF SimplifiedOf(j).differs THEN SimplifiedOf(j).RHS ELSE WitnessSymbolOf(Log, j)

\* The calls that reach the branches after the prefix scan.
ConcreteSyntheses == {j \in Syntheses : Log[j].name \in {"same", "concrete"}}

\* C18: past the tie-off, the self-referential branch is taken exactly when the
\* requirement kind is SameType and the simplified witness symbol has the type
\* and the substitutions of the parent concrete type, never under Superclass;
\* it adds one rule, between key.S, of length |key| + 1, and key.S.[P:M], of
\* length |key| + 2, no concrete type symbol appended; its path is an inverse
\* step of the same-type-witness relation at offset |key|, the simplification
\* path, and a forward step of the concrete-type-witness relation at offset
\* |key|.
C18_SelfReferentialWitness ==
    \A j \in ConcreteSyntheses :
        LET S == ConformanceSymbolOf(Log, j)
            X == AssociatedTypeOf(Log, j)
            key == Log[j].key
            call == Log[j + 1]
            n == Len(call.path)
        IN /\ Log[j].name = "same" <=>
                 /\ Log[j].kind = SameType
                 /\ SimplifiedSymbolOf(j).type = S.type
                 /\ SimplifiedSymbolOf(j).subs = S.subs
           /\ Log[j].name = "same" =>
                 /\ call.op = "addRule"
                 /\ call.lhs = key \o <<S>>
                 /\ call.rhs = key \o <<S, X>>
                 /\ Len(call.lhs) = Len(key) + 1
                 /\ Len(call.rhs) = Len(key) + 2
                 /\ Cardinality({k \in AddRuleCalls :
                                    /\ Log[k].name = "witness"
                                    /\ Log[k].pair = Log[j].pair
                                    /\ Log[k].rhs = call.rhs}) = 1
                 /\ n = Len(SubstPathOf(j)) + 2
                 /\ call.path[1].Kind = "Relation"
                 /\ call.path[1].StartOffset = Len(key)
                 /\ call.path[1].Inverse = TRUE
                 /\ IsRelation(call.path[1].Arg,
                               <<S, X, forConcreteType(S.type, S.subs)>>, <<S>>)
                 /\ SubSeq(call.path, 2, n - 1) = SubstPathOf(j)
                 /\ call.path[n].Kind = "Relation"
                 /\ call.path[n].StartOffset = Len(key)
                 /\ call.path[n].Inverse = FALSE
                 /\ IsRelation(call.path[n].Arg, <<S, X, WitnessSymbolOf(Log, j)>>, <<S, X>>)

\* A self-referential rule has been added under SameType, and under
\* Superclass a witness equal to the superclass itself has been given the rule
\* of a concrete type.
C18_Witness ==
    /\ \E j \in ConcreteSyntheses : Log[j].name = "same"
    /\ \E j \in ConcreteSyntheses :
          /\ Log[j].kind = Superclass
          /\ Log[j].name = "concrete"
          /\ SimplifiedSymbolOf(j).type = ConformanceSymbolOf(Log, j).type
          /\ SimplifiedSymbolOf(j).subs = ConformanceSymbolOf(Log, j).subs

\* C19: the general concrete branch adds the rule subject.[concrete: w'] =>
\* subject, w' being the right-hand symbol of the type difference when the
\* simplification of the substitutions reports one and the witness symbol as
\* it was otherwise; the concrete-type-witness relation is the one recorded
\* for the symbol before the simplification; and the path is the simplification
\* path, inverted, empty when no difference was reported, followed by one
\* forward relation step at offset |key|.
C19_ConcreteWitness ==
    \A j \in ConcreteSyntheses :
        Log[j].name = "concrete" =>
           LET S == ConformanceSymbolOf(Log, j)
               X == AssociatedTypeOf(Log, j)
               key == Log[j].key
               call == Log[j + 1]
               n == Len(call.path)
           IN /\ call.op = "addRule"
              /\ call.rhs = key \o <<S, forAssociatedType(S.proto, Log[j].member)>>
              /\ call.lhs = call.rhs \o <<SimplifiedSymbolOf(j)>>
              /\ n = Len(SubstPathOf(j)) + 1
              /\ SubSeq(call.path, 1, n - 1) = SubstPathOf(j)
              /\ \A k \in 1..(n - 1) : call.path[k].Kind = "Rule" /\ call.path[k].Inverse
              /\ call.path[n].Kind = "Relation"
              /\ call.path[n].StartOffset = Len(key)
              /\ call.path[n].Inverse = FALSE
              /\ IsRelation(call.path[n].Arg, <<S, X, WitnessSymbolOf(Log, j)>>, <<S, X>>)

\* A concrete type rule has been added whose witness symbol the
\* simplification changed.
C19_Witness ==
    \E j \in ConcreteSyntheses :
        /\ Log[j].name = "concrete"
        /\ SimplifiedOf(j).differs
        /\ Log[j + 1].lhs[Len(Log[j + 1].lhs)] # WitnessSymbolOf(Log, j)
        /\ Len(Log[j + 1].path) = 2

\* The calls that record a compound conformance rule, as indices into the
\* log; the addRule call of each is the next entry.
Recordings == {j \in 1..Len(Log) : Log[j].op = "recordConcreteConformanceRule"}

\* C20: the compound rule of a pair has as its right side the longer of the
\* right-hand sides of the two rules, the conformance rule's when they are
\* equally long, and as its left side that term followed by the concrete
\* conformance symbol, so |LHS| = max(|concrete RHS|, |conformance RHS|) + 1.
\* Its path is built as the conformance rule inverted, the concrete rule
\* inverted, a prefix-substitutions step when the concrete rule is the shorter
\* and the symbol has substitutions, and a forward step of the concrete
\* conformance relation at offset |RHS|, and then inverted as a whole: the
\* rule is added with these steps in reverse order, each one inverted.
C20_CompoundRule ==
    \A j \in Recordings :
        LET concreteRule == Rules[Log[j].pair[1]]
            conformanceRule == Rules[Log[j].pair[2]]
            call == Log[j + 1]
            S == call.lhs[Len(call.lhs)]
            n == Len(call.path)
            longest == IF Len(concreteRule.RHS) > Len(conformanceRule.RHS)
                       THEN Len(concreteRule.RHS) ELSE Len(conformanceRule.RHS)
            prefixLength == longest - Len(concreteRule.RHS)
            prefixed == prefixLength > 0 /\ S.subs # <<>>
            concreteSymbol == concreteRule.LHS[Len(concreteRule.LHS)]
        IN /\ call.op = "addRule"
           /\ call.name = "compound"
           /\ call.rhs = IF Len(concreteRule.RHS) > Len(conformanceRule.RHS)
                         THEN concreteRule.RHS ELSE conformanceRule.RHS
           /\ call.lhs = call.rhs \o <<S>>
           /\ S.kind = "conformance"
           /\ Len(call.lhs) = longest + 1
           /\ n = IF prefixed THEN 4 ELSE 3
           /\ call.path[n] = forRewriteRule(longest - Len(conformanceRule.RHS), 0,
                                            Log[j].pair[2], FALSE)
           /\ call.path[n - 1] = forRewriteRule(prefixLength, 1, Log[j].pair[1], FALSE)
           /\ prefixed => call.path[2] = forPrefixSubstitutions(prefixLength, 1, TRUE)
           /\ call.path[1].Kind = "Relation"
           /\ call.path[1].StartOffset = longest
           /\ call.path[1].Inverse = TRUE
           /\ IsRelation(call.path[1].Arg,
                         <<IF prefixed
                           THEN [concreteSymbol EXCEPT !.subs =
                                   [k \in 1..Len(concreteSymbol.subs) |->
                                       SubSeq(call.rhs, 1, prefixLength) \o concreteSymbol.subs[k]]]
                           ELSE concreteSymbol,
                           conformanceRule.LHS[Len(conformanceRule.LHS)]>>,
                         <<S>>)

\* A compound rule has been recorded for a pair whose concrete type rule has
\* the longer right-hand side.
C20_Witness ==
    \E j \in Recordings :
        /\ Len(Rules[Log[j].pair[1]].RHS) > Len(Rules[Log[j].pair[2]].RHS)
        /\ Log[j + 1].rhs = Rules[Log[j].pair[1]].RHS

\* A compound rule has been recorded with a prefix-substitutions step.
PrefixedCompoundRule ==
    \E j \in Recordings :
        /\ Len(Log[j + 1].path) = 4
        /\ Log[j + 1].rhs = Rules[Log[j].pair[2]].RHS

\* The compound rule whose recording is log entry j has a prefix-substitutions
\* step in its path.
HasPrefixStep(j) ==
    \E k \in 1..Len(Log[j + 1].path) : Log[j + 1].path[k].Kind = "PrefixSubstitutions"

\* The concrete symbol of the relation recorded with the compound rule of log
\* entry j: the first symbol of the left side of the relation its path uses.
RelatedConcreteSymbol(j) == Relations[Log[j + 1].path[1].Arg][1][1]

\* The symbol of the concrete rule of log entry j, its substitution terms
\* prefixed by the first n symbols of the compound rule's right side.
Reprefixed(j, n) ==
    prependPrefixToConcreteSubstitutions(isPropertyRule(Rules[Log[j].pair[1]]),
                                         Prefix(Log[j + 1].rhs, n))

\* C21 as stated: the prefix-substitutions step is there exactly when the
\* conformance rule's right side is shorter than the concrete rule's.
C21_PrefixedWhenConformanceShorter ==
    \A j \in Recordings :
        HasPrefixStep(j) <=>
            Len(Rules[Log[j].pair[2]].RHS) < Len(Rules[Log[j].pair[1]].RHS)

\* C21: in rule merging the concrete symbol's substitution terms are prefixed
\* by the leading symbols the longer right side has in addition, and a
\* prefix-substitutions step is added to the path, exactly when the concrete
\* rule's right side is shorter than the conformance rule's and the
\* concrete-conformance symbol has substitution terms; otherwise the concrete
\* rule's symbol is used as it is and the path has no such step.
C21_PrefixedWhenConcreteShorter ==
    \A j \in Recordings :
        LET concreteRule == Rules[Log[j].pair[1]]
            conformanceRule == Rules[Log[j].pair[2]]
            S == Log[j + 1].lhs[Len(Log[j + 1].lhs)]
            extra == Len(conformanceRule.RHS) - Len(concreteRule.RHS)
        IN IF extra > 0 /\ S.subs # <<>>
           THEN /\ HasPrefixStep(j)
                /\ RelatedConcreteSymbol(j) = Reprefixed(j, extra)
                /\ RelatedConcreteSymbol(j) # isPropertyRule(concreteRule)
           ELSE /\ ~HasPrefixStep(j)
                /\ RelatedConcreteSymbol(j) = isPropertyRule(concreteRule)

\* A compound rule has been recorded for a concrete rule that is the shorter
\* of the pair and whose symbol has substitution terms.
C21_Witness ==
    \E j \in Recordings :
        /\ Len(Rules[Log[j].pair[1]].RHS) < Len(Rules[Log[j].pair[2]].RHS)
        /\ isPropertyRule(Rules[Log[j].pair[1]]).subs # <<>>
        /\ HasPrefixStep(j)

\* A compound rule has been recorded for a concrete rule that is the shorter
\* of the pair and whose symbol has no substitution terms.
ShorterWithoutSubstitutions ==
    \E j \in Recordings :
        /\ Len(Rules[Log[j].pair[1]].RHS) < Len(Rules[Log[j].pair[2]].RHS)
        /\ isPropertyRule(Rules[Log[j].pair[1]]).subs = <<>>

\* A compound rule has been recorded for a conformance rule that is the
\* shorter of the pair.
ConformanceShorter ==
    \E j \in Recordings :
        Len(Rules[Log[j].pair[2]].RHS) < Len(Rules[Log[j].pair[1]].RHS)

\* The test of the self-referential branch, on a synthesizer call: the kind
\* is SameType and the simplified witness symbol has the type and the
\* substitution terms of the parent concrete type.
SameAsParent(j) ==
    /\ Log[j].kind = SameType
    /\ SimplifiedSymbolOf(j).type = ConformanceSymbolOf(Log, j).type
    /\ SimplifiedSymbolOf(j).subs = ConformanceSymbolOf(Log, j).subs

\* C22: the branches of the synthesizer are tried in the order abstract
\* witness, prefix tie-off, self-referential, general.  A witness that is a
\* type parameter always takes the abstract branch; under SameType a witness
\* without type parameters that is the key's own concrete type is tied off
\* with the whole key as the prefix, although it passes the test of the
\* self-referential branch; so the self-referential branch is taken only for
\* a witness that has a type parameter in structural position, and the general
\* branch only for a concrete witness that fails the self-referential test.
C22_BranchPrecedence ==
    \A j \in Syntheses :
        LET w == WitnessOf(Log, j)
            S == ConformanceSymbolOf(Log, j)
            key == Log[j].key
        IN /\ Log[j].name \in {"abstract", "prefix", "same", "concrete"}
           /\ isTypeParameter(w) => Log[j].name = "abstract"
           /\ (Log[j].kind = SameType /\ ~hasTypeParameter(w) /\ w = S.type) =>
                 /\ Log[j].name = "prefix"
                 /\ Log[j + 1].lhs = key \o <<WitnessSymbolOf(Log, j)>>
           /\ Log[j].name = "prefix" => ~hasTypeParameter(w)
           /\ Log[j].name = "same" =>
                 /\ hasTypeParameter(w)
                 /\ ~isTypeParameter(w)
                 /\ SameAsParent(j)
           /\ Log[j].name = "concrete" => ~isTypeParameter(w) /\ ~SameAsParent(j)

\* Under SameType a witness without type parameters that is the key's own
\* concrete type, and passes the test of the self-referential branch, has
\* been tied off with the whole key.
C22_Witness ==
    \E j \in Syntheses :
        /\ Log[j].kind = SameType
        /\ ~hasTypeParameter(WitnessOf(Log, j))
        /\ WitnessOf(Log, j) = ConformanceSymbolOf(Log, j).type
        /\ SameAsParent(j)
        /\ Log[j].name = "prefix"
        /\ Log[j + 1].lhs = Log[j].key \o <<WitnessSymbolOf(Log, j)>>

\* C23: an iteration that finds no conformance under SameType flags each of
\* the two rules of its pair exactly when that rule's right-hand side has the
\* length of the key being processed: a rule that is not flagged yet is
\* flagged by the iteration if and only if the lengths are equal, one rule
\* whatever the other is, so a rule the key inherited from a shorter term is
\* left as it was; no other rule's flag changes.
C23_FlaggedIffOnKey ==
    [][(/\ Running
        /\ find(ConcreteConformances, PairAt(Entries, Positions[pc])) = {}
        /\ ConformanceAt(Entries, Positions[pc]) = Invalid
        /\ Positions[pc].kind = SameType
        /\ pc' = pc + 1)
       => LET pair == PairAt(Entries, Positions[pc])
              key == KeyAt(Entries, Positions[pc])
          IN /\ \A n \in 1..2 :
                   Rules'[pair[n]].conflicting <=>
                      \/ Rules[pair[n]].conflicting
                      \/ Len(Rules[pair[n]].RHS) = Len(key)
             /\ \A r \in 1..Len(Rules) :
                   r \notin {pair[1], pair[2]} =>
                      Rules'[r].conflicting = Rules[r].conflicting]_vars

\* A conflict under SameType has just been processed on a key that inherited
\* its concrete type rule from a shorter term and states the conformance
\* itself: the conformance rule is flagged and the concrete type rule is not.
C23_Witness ==
    /\ Iterated
    /\ last.branch = "missing"
    /\ last.kind = SameType
    /\ Len(Rules[PairAt(Entries, last)[1]].RHS) < Len(KeyAt(Entries, last))
    /\ ~Rules[PairAt(Entries, last)[1]].conflicting
    /\ Len(Rules[PairAt(Entries, last)[2]].RHS) = Len(KeyAt(Entries, last))
    /\ Rules[PairAt(Entries, last)[2]].conflicting

\* The same with the roles exchanged: the key states the concrete type and
\* inherited the conformance.
InheritedConformanceUnflagged ==
    /\ Iterated
    /\ last.branch = "missing"
    /\ last.kind = SameType
    /\ Len(Rules[PairAt(Entries, last)[2]].RHS) < Len(KeyAt(Entries, last))
    /\ ~Rules[PairAt(Entries, last)[2]].conflicting
    /\ Len(Rules[PairAt(Entries, last)[1]].RHS) = Len(KeyAt(Entries, last))
    /\ Rules[PairAt(Entries, last)[1]].conflicting

(***************************************************************************)
(* Properties of the executor hops.                                        *)
(***************************************************************************)
\* The hops and the executor checks the prolog built.
PrologHops ==
    {i \in 1..Len(SGF.B) :
        SGF.B[i].op = "hop_to_executor" /\ SGF.B[i].by = "emitExpectedExecutor"}

PrologChecks ==
    {i \in 1..Len(SGF.B) :
        SGF.B[i].op = "apply" /\ SGF.B[i].by = "emitPreconditionCheckExpectedExecutor"}

\* The function has no isolation: its context is neither a declaration nor a
\* closure isolated to an actor instance or to a global actor.
HasNoIsolation ==
    \/ SGF.FunctionDC.kind = "other"
    \/ SGF.FunctionDC.isolation.kind \in {Unspecified, Nonisolated, NonisolatedUnsafe}

\* What the prolog selects for an async function.
AsyncEndsWithExecutor ==
    SGF.F.isAsync =>
        /\ SGF.ExpectedExecutor = NoExecutor <=>
              HasNoIsolation /\ unsafelyInheritsExecutor(SGF)
        /\ (HasNoIsolation /\ ~unsafelyInheritsExecutor(SGF)) =>
              SGF.ExpectedExecutor = genericExecutor

\* What the prolog builds for an async function and when nothing is selected.
HopForAsync ==
    /\ PrologHops = {} \/ PrologChecks = {}
    /\ (SGF.ExpectedExecutor # NoExecutor /\ SGF.F.isAsync) =>
          /\ Cardinality(PrologHops) = 1
          /\ \A i \in PrologHops :
                ~SGF.B[i].mandatory /\ SGF.B[i].operand = SGF.ExpectedExecutor
          /\ PrologChecks = {}
    /\ SGF.ExpectedExecutor = NoExecutor => PrologHops = {} /\ PrologChecks = {}

\* C24 as stated: after the prolog there is at most one of a hop and a check;
\* with an expected executor an async function has exactly one hop, not
\* mandatory, and no check, and a synchronous function has the check and no
\* hop; without one there is neither; an async function has an expected
\* executor unless it has no isolation and unsafely inherits its executor.
C24_HopOrCheck ==
    phase # "prolog" =>
        /\ HopForAsync
        /\ (SGF.ExpectedExecutor # NoExecutor /\ ~SGF.F.isAsync) =>
              Cardinality(PrologChecks) = 1 /\ PrologHops = {}
        /\ AsyncEndsWithExecutor

\* C24: emitExpectedExecutor builds at most one of a hop_to_executor and an
\* expected-executor check.  With an expected executor selected, an async
\* function gets exactly one hop to it, not mandatory, and no check; a
\* synchronous function gets no hop, and gets the check exactly when the
\* intrinsic _checkExpectedExecutor is available (the module has it, and
\* availability checking is disabled or the deployment target is within its
\* availability), nothing otherwise.  With none selected neither is built.
\* An async function ends with an expected executor, the generic one when it
\* has no isolation, unless it has no isolation and unsafely inherits its
\* executor.
C24_HopOrCheckIfAvailable ==
    phase # "prolog" =>
        /\ HopForAsync
        /\ (SGF.ExpectedExecutor # NoExecutor /\ ~SGF.F.isAsync) =>
              /\ PrologHops = {}
              /\ Cardinality(PrologChecks) =
                    IF /\ SGF.SGM.checkExecutor
                       /\ SGF.SGM.DisableAvailabilityChecking \/ SGF.SGM.deploymentContained
                    THEN 1 ELSE 0
        /\ AsyncEndsWithExecutor

\* The prolog of a synchronous function has selected an expected executor
\* and, the intrinsic being unavailable at the deployment target, built no
\* check.
C24_Witness ==
    /\ phase = "body"
    /\ ~SGF.F.isAsync
    /\ SGF.ExpectedExecutor # NoExecutor
    /\ SGF.SGM.checkExecutor
    /\ ~SGF.SGM.DisableAvailabilityChecking
    /\ ~SGF.SGM.deploymentContained
    /\ PrologChecks = {}
    /\ PrologHops = {}

\* An async function without isolation has hopped to the generic executor.
AsyncOnGenericExecutor ==
    /\ phase = "body"
    /\ SGF.F.isAsync
    /\ HasNoIsolation
    /\ SGF.ExpectedExecutor = genericExecutor
    /\ Cardinality(PrologHops) = 1

\* The function is nested in a destructor isolated to an actor instance:
\* going outwards from the function itself, the first destructor is isolated
\* to an actor instance and no type context lies before it.
NestedInActorDestructor ==
    LET chain == <<SGF.FunctionDC>> \o SGF.Parents
    IN \E i \in 1..Len(chain) :
          /\ chain[i].kind = "destructor"
          /\ chain[i].isolation.kind = ActorInstance
          /\ \A j \in 1..(i - 1) : chain[j].kind \notin {"destructor", "type"}

DeferBodyUnchecked ==
    /\ phase = "body"
    /\ ~SGF.F.isAsync
    /\ SGF.F.isDefer
    /\ SGF.SGM.EnableActorDataRaceChecks
    /\ SGF.FunctionDC.isolation.kind = GlobalActor
    /\ SGF.ExpectedExecutor = NoExecutor

\* The hops to a target and the hops back among the first n instructions.
TargetHops(b, n) ==
    {i \in 1..n : b[i].op = "hop_to_executor" /\ b[i].by = "emitHopToTargetExecutor"}

HopsBack(b, n) ==
    {i \in 1..n : b[i].op = "hop_to_executor" /\ b[i].by = "ExecutorBreadcrumb::emit"}

\* The isolation asked for is one of an actor.
IsActor(maybeIso) ==
    maybeIso # None /\ maybeIso[1].kind \in {ActorInstance, GlobalActor}

\* C26: emitHopToTargetActor builds a hop_to_executor to the target and
\* returns a breadcrumb that must return to the executor exactly when an
\* isolation is given and it is one of an actor instance or of a global
\* actor; otherwise it builds nothing and returns an empty breadcrumb.
\* Emitting a breadcrumb builds exactly one hop, to the function's expected
\* executor, when the breadcrumb must return and an expected executor is
\* set, and nothing otherwise.  So, at every point of the function, no more
\* hops back have been built than hops to a target before them.
C26_HopsPaired ==
    [][/\ Len(Breadcrumbs') = Len(Breadcrumbs) + 1 =>
             LET entry == Breadcrumbs'[Len(Breadcrumbs')]
                 n == Len(SGF'.B)
             IN /\ entry.breadcrumb.mustReturnToExecutor <=> IsActor(entry.maybeIso)
                /\ IsActor(entry.maybeIso) =>
                      /\ n > Len(SGF.B)
                      /\ SubSeq(SGF'.B, 1, Len(SGF.B)) = SGF.B
                      /\ TargetHops(SGF'.B, n) = TargetHops(SGF.B, Len(SGF.B)) \cup {n}
                      /\ ~SGF'.B[n].mandatory
                      /\ SGF'.B[n].operand =
                            IF entry.maybeIso[1].kind = ActorInstance
                            THEN <<"actor", entry.maybeIso[1].actor>>
                            ELSE <<"actor", getGlobalActorInstance(entry.maybeIso[1].actor)>>
                      /\ SGF'.ExpectedExecutor = SGF.ExpectedExecutor
                /\ ~IsActor(entry.maybeIso) => SGF' = SGF
       /\ \A k \in 1..Len(Breadcrumbs) :
             (Len(Breadcrumbs') = Len(Breadcrumbs) /\ Breadcrumbs'[k].emitted
              /\ ~Breadcrumbs[k].emitted) =>
                IF /\ Breadcrumbs[k].breadcrumb.mustReturnToExecutor
                   /\ SGF.ExpectedExecutor # NoExecutor
                THEN /\ Len(SGF'.B) = Len(SGF.B) + 1
                     /\ [SGF' EXCEPT !.B = SubSeq(@, 1, Len(SGF.B))] = SGF
                     /\ Len(SGF'.B) \in HopsBack(SGF'.B, Len(SGF'.B))
                     /\ SGF'.B[Len(SGF'.B)].operand = SGF.ExpectedExecutor
                     /\ ~SGF'.B[Len(SGF'.B)].mandatory
                ELSE SGF' = SGF
       /\ \A n \in 1..Len(SGF'.B) :
             Cardinality(HopsBack(SGF'.B, n)) <= Cardinality(TargetHops(SGF'.B, n))]_vars

\* A hop to a target actor has been followed by the emission of its
\* breadcrumb, which hopped back to the expected executor.
C26_Witness ==
    /\ \E k \in 1..Len(Breadcrumbs) :
          Breadcrumbs[k].breadcrumb.mustReturnToExecutor /\ Breadcrumbs[k].emitted
    /\ \E i, j \in 1..Len(SGF.B) :
          /\ i < j
          /\ i \in TargetHops(SGF.B, Len(SGF.B))
          /\ j \in HopsBack(SGF.B, Len(SGF.B))
          /\ SGF.B[j].operand = SGF.ExpectedExecutor
          /\ SGF.B[i].operand # SGF.ExpectedExecutor

\* An empty breadcrumb has been emitted in a function with an expected
\* executor, and nothing was built for it.
EmptyBreadcrumbEmitted ==
    /\ SGF.ExpectedExecutor # NoExecutor
    /\ \E k \in 1..Len(Breadcrumbs) :
          ~Breadcrumbs[k].breadcrumb.mustReturnToExecutor /\ Breadcrumbs[k].emitted
    /\ HopsBack(SGF.B, Len(SGF.B)) = {}

\* The emission has stopped on the assertion of a breadcrumb that must return
\* in a function without expected executor.
StoppedOnAssertion == phase = "aborted"

====
